---------------------------- MODULE Spec2Model ----------------------------
(***************************************************************************)
(* Model of the SDD threat pipeline: the label safety classifier and the   *)
(* threat scorer (src/src/sdd/threat_utils.py), the scoring done inside    *)
(* YoloDetector.detect (src/src/sdd/detector.py) and the per-label event   *)
(* summary (src/src/sdd/io_utils.py).                                      *)
(*                                                                         *)
(* Numbers.  Python floats that are ratios (confidence, area_norm,         *)
(* proximity, threat_score, timestamps) are fixed-point integers counting  *)
(* 1/SCALE; every division and the square root round down to that grid.   *)
(* Pixel coordinates and areas are integral-valued and kept as integers.   *)
(* Text.  A str is a sequence of one-character strings; None is the value  *)
(* PyNone.                                                                 *)
(***************************************************************************)
EXTENDS Integers, Sequences, FiniteSets, TLC

VARIABLES
    pc,               \* position of the running call
    label,            \* classify_label_safety: its argument
    safety,           \* classify_label_safety: its return value
    inp,              \* scorer: label, score, box and frame of one model box
    metrics,          \* compute_threat_metrics: its locals and return value
    emitted,          \* YoloDetector.detect: the list of Detection it returns
    detections_list,  \* save_events_summary: list(detections)
    idx,              \* save_events_summary: number of loop iterations done
    stats,            \* save_events_summary: label -> running aggregate
    rows,             \* save_events_summary: rows written after the header
    level_counts,     \* dominant level: the tallies it is computed from
    dominant_level,   \* dominant level: the result
    det_rows,         \* tools: the rows loaded from detections.csv
    max_dt,           \* tools: --max-dt
    frame_size,       \* estimate_frame_size: its return value
    motion_stats,     \* compute_motion_per_label: its return value
    csv_header,       \* save_detections_csv: the header line it wrote
    events_rows,      \* tools: the rows loaded from the events csv
    combined,         \* analyze_threat_motion.main: the entries printed
    err,              \* the exception a call ended with, "" if none
    args,             \* cli.run: the parsed command line
    rt_cfg,           \* cli.run: the RuntimeConfig built from it
    writer,           \* cli.run: whether a video writer is open
    run_frame_index,  \* cli.run: its local frame_index, the loop counter
    all_detections,   \* cli.run: the detections collected so far
    detect_frames     \* cli.run: the frame_index of each call of detect

vars == <<pc, label, safety, inp, metrics, emitted, detections_list, idx,
          stats, rows, level_counts, dominant_level, det_rows, max_dt,
          frame_size, motion_stats, csv_header, events_rows, combined, err,
          args, rt_cfg, writer, run_frame_index, all_detections,
          detect_frames>>

labelVars == <<label, safety>>
scoreVars == <<inp, metrics, emitted>>
aggVars == <<detections_list, idx, stats, rows>>
domVars == <<level_counts, dominant_level>>
toolVars == <<det_rows, max_dt, frame_size, motion_stats, csv_header,
              events_rows, combined, err>>
cliVars ==
    <<args, rt_cfg, writer, run_frame_index, all_detections, detect_frames>>

----------------------------------------------------------------------------
(* Fixed-point arithmetic *)

SCALE == 100 * 100

Max(a, b) == IF a >= b THEN a ELSE b
Min(a, b) == IF a <= b THEN a ELSE b

RECURSIVE SqrtSearch(_, _, _)
SqrtSearch(n, lo, hi) ==
    IF lo >= hi THEN lo
    ELSE LET mid == (lo + hi + 1) \div 2
         IN  IF mid * mid <= n THEN SqrtSearch(n, mid, hi)
             ELSE SqrtSearch(n, lo, mid - 1)

\* floor of the square root of n >= 0
ISqrt(n) == SqrtSearch(n, 0, Min(n, 46340))

----------------------------------------------------------------------------
(* Text *)

PyNone == <<"None">>

Whitespace == {" ", "\t", "\n", "\r"}

UpperLetters == <<"A", "B", "C", "D", "E", "F", "G", "H", "I", "J", "K", "L", "M",
                  "N", "O", "P", "Q", "R", "S", "T", "U", "V", "W", "X", "Y", "Z">>
LowerLetters == <<"a", "b", "c", "d", "e", "f", "g", "h", "i", "j", "k", "l", "m",
                  "n", "o", "p", "q", "r", "s", "t", "u", "v", "w", "x", "y", "z">>

LowerChar(c) ==
    IF \E i \in 1..26 : UpperLetters[i] = c
    THEN LowerLetters[CHOOSE i \in 1..26 : UpperLetters[i] = c]
    ELSE c

\* str.lower()
Lower(s) == [i \in 1..Len(s) |-> LowerChar(s[i])]

RECURSIVE LStrip(_)
LStrip(s) ==
    IF s # <<>> /\ Head(s) \in Whitespace THEN LStrip(Tail(s)) ELSE s

RECURSIVE RStrip(_)
RStrip(s) ==
    IF s # <<>> /\ s[Len(s)] \in Whitespace
    THEN RStrip(SubSeq(s, 1, Len(s) - 1))
    ELSE s

\* str.strip()
Strip(s) == RStrip(LStrip(s))

----------------------------------------------------------------------------
(* threat_utils.classify_label_safety *)

dangerous_keywords ==
    { <<"a", "i", "r", "p", "l", "a", "n", "e">>,
      <<"h", "e", "l", "i", "c", "o", "p", "t", "e", "r">>,
      <<"b", "i", "r", "d">>,
      <<"k", "i", "t", "e">>,
      <<"b", "a", "l", "l", "o", "o", "n">>,
      <<"d", "r", "o", "n", "e">>,
      <<"p", "a", "r", "a", "g", "l", "i", "d", "e", "r">>,
      <<"h", "a", "n", "g", " ", "g", "l", "i", "d", "e", "r">> }

medium_keywords ==
    { <<"c", "a", "r">>,
      <<"t", "r", "u", "c", "k">>,
      <<"b", "u", "s">>,
      <<"t", "r", "a", "i", "n">>,
      <<"b", "o", "a", "t">>,
      <<"s", "h", "i", "p">>,
      <<"m", "o", "t", "o", "r", "c", "y", "c", "l", "e">>,
      <<"b", "i", "c", "y", "c", "l", "e">>,
      <<"p", "a", "r", "k", "i", "n", "g", " ", "m", "e", "t", "e", "r">> }

\* a plausible slip: the label is lower-cased but not trimmed
classify_label_safety_NoStrip(l) ==
    LET name == Lower(IF l = PyNone \/ l = <<>> THEN <<>> ELSE l)
    IN  IF name \in dangerous_keywords THEN "danger"
        ELSE IF name \in medium_keywords THEN "medium"
        ELSE "safe"

classify_label_safety(l) ==
    LET name == Lower(Strip(IF l = PyNone \/ l = <<>> THEN <<>> ELSE l))
    IN  IF name \in dangerous_keywords THEN "danger"
        ELSE IF name \in medium_keywords THEN "medium"
        ELSE "safe"

----------------------------------------------------------------------------
(* Inputs of the classifier: None, and every base text in three casings    *)
(* with optional whitespace on either side.                                *)

OtherTexts ==
    { <<>>,
      <<"p", "e", "r", "s", "o", "n">>,
      <<"c", "a", "r", "p", "e", "t">>,
      <<"d", "r", "o", "n", "e", "s">>,
      <<"h", "a", "n", "g">>,
      <<"h", "a", "n", "g", "g", "l", "i", "d", "e", "r">>,
      <<"c", " ", "a", "r">>,
      <<"4", "2">> }

UpperChar(c) ==
    IF \E i \in 1..26 : LowerLetters[i] = c
    THEN UpperLetters[CHOOSE i \in 1..26 : LowerLetters[i] = c]
    ELSE c

Casings(s) ==
    { s,
      [i \in 1..Len(s) |-> UpperChar(s[i])],
      [i \in 1..Len(s) |-> IF i = 1 THEN UpperChar(s[i]) ELSE s[i]] }

LeftPads == { <<>>, <<" ">>, <<"\t", " ">> }
RightPads == { <<>>, <<" ">>, <<"\n">> }

LabelInputs ==
    {PyNone} \cup
    { l \o c \o r : l \in LeftPads, r \in RightPads,
        c \in UNION { Casings(b) :
                        b \in dangerous_keywords \cup medium_keywords \cup OtherTexts } }

----------------------------------------------------------------------------
(* threat_utils.FrameGeometry and threat_utils.compute_threat_metrics *)

Clamp01(v) == Max(0, Min(SCALE, v))

FrameGeometry_area(width, height) == Max(0, width) * Max(0, height)

\* area = max(0.0, (x2 - x1) * (y2 - y1))
box_area(x1, y1, x2, y2) == Max(0, (x2 - x1) * (y2 - y1))

\* area_norm = area / frame_area if frame_area > 0 else 0.0
box_area_norm(area, frame_area) ==
    IF frame_area > 0 THEN (area * SCALE) \div frame_area ELSE 0

\* a plausible slip: the distance is divided by 1.0 instead of 0.5
center_proximity_FullDist(x1, y1, x2, y2, width, height) ==
    IF width > 0 /\ height > 0
    THEN LET cx == ((x1 + x2) * SCALE) \div (2 * width)
             cy == ((y1 + y2) * SCALE) \div (2 * height)
             dx == cx - (SCALE \div 2)
             dy == cy - (SCALE \div 2)
             dist_center == ISqrt(dx * dx + dy * dy)
         IN  SCALE - Min(dist_center, SCALE)
    ELSE 0

center_proximity(x1, y1, x2, y2, width, height) ==
    IF width > 0 /\ height > 0
    THEN LET cx == ((x1 + x2) * SCALE) \div (2 * width)
             cy == ((y1 + y2) * SCALE) \div (2 * height)
             dx == cx - (SCALE \div 2)
             dy == cy - (SCALE \div 2)
             dist_center == ISqrt(dx * dx + dy * dy)
         IN  SCALE - Min(dist_center * 2, SCALE)
    ELSE 0

safety_bias_of(l) ==
    LET s == classify_label_safety(l)
    IN  IF s = "danger" THEN (20 * SCALE) \div 100
        ELSE IF s = "medium" THEN (10 * SCALE) \div 100
        ELSE 0

\* a plausible slip: the thresholds of the detector's private scorer
threat_level_of_Detector(threat_score) ==
    IF threat_score >= (60 * SCALE) \div 100 THEN "high"
    ELSE IF threat_score >= (30 * SCALE) \div 100 THEN "medium"
    ELSE "low"

threat_level_of(threat_score) ==
    IF threat_score >= (65 * SCALE) \div 100 THEN "high"
    ELSE IF threat_score >= (35 * SCALE) \div 100 THEN "medium"
    ELSE "low"

\* a plausible slip: the weights of the detector's private scorer, no label bias
weighted_sum_Detector(score_clamped, area_term, proximity_term, safety_bias) ==
    (60 * score_clamped) \div 100
    + (30 * area_term) \div 100
    + (10 * proximity_term) \div 100

weighted_sum(score_clamped, area_term, proximity_term, safety_bias) ==
    (55 * score_clamped) \div 100
    + (25 * area_term) \div 100
    + (10 * proximity_term) \div 100
    + (10 * safety_bias) \div 100

\* The returned tuple (threat_score, threat_level, area, area_norm) together
\* with the locals proximity and safety_bias.
compute_threat_metrics(l, score, x1, y1, x2, y2, width, height) ==
    LET frame_area == FrameGeometry_area(width, height)
        area == box_area(x1, y1, x2, y2)
        area_norm == box_area_norm(area, frame_area)
        proximity == center_proximity(x1, y1, x2, y2, width, height)
        safety_bias == safety_bias_of(l)
        score_clamped == Clamp01(score)
        area_term == Clamp01(area_norm * 4)
        proximity_term == Clamp01(proximity)
        threat_score ==
            Clamp01(weighted_sum(score_clamped, area_term, proximity_term,
                                 safety_bias))
    IN  [ threat_score |-> threat_score,
          threat_level |-> threat_level_of(threat_score),
          area |-> area,
          area_norm |-> area_norm,
          proximity |-> proximity,
          safety_bias |-> safety_bias ]

----------------------------------------------------------------------------
(* detector.YoloDetector.detect *)

\* the nested _compute_threat; width, height and frame_area are its closure
detect_compute_threat(x1, y1, x2, y2, score, width, height, frame_area) ==
    LET area == Max(0, (x2 - x1) * (y2 - y1))
        area_norm == IF frame_area > 0 THEN (area * SCALE) \div frame_area ELSE 0
        proximity ==
            IF width > 0 /\ height > 0
            THEN LET cx == ((x1 + x2) * SCALE) \div (2 * width)
                     cy == ((y1 + y2) * SCALE) \div (2 * height)
                     dx == cx - (SCALE \div 2)
                     dy == cy - (SCALE \div 2)
                     dist_center == ISqrt(dx * dx + dy * dy)
                 IN  SCALE - Min(dist_center * 2, SCALE)
            ELSE 0
        threat_score ==
            (60 * Clamp01(score)) \div 100
            + (30 * Clamp01(area_norm * 4)) \div 100
            + (10 * Clamp01(proximity)) \div 100
        threat_level ==
            IF threat_score >= (60 * SCALE) \div 100 THEN "high"
            ELSE IF threat_score >= (30 * SCALE) \div 100 THEN "medium"
            ELSE "low"
    IN  [ threat_score |-> threat_score, threat_level |-> threat_level,
          area |-> area, area_norm |-> area_norm ]

\* One model box b on a frame of the given shape; keep tells whether the
\* box's class passes the target-class filter.
detect(b, frame_index, timestamp, keep) ==
    LET width == b.width
        height == b.height
        frame_area == IF width > 0 /\ height > 0 THEN width * height ELSE 0
        t == detect_compute_threat(b.x1, b.y1, b.x2, b.y2, b.score,
                                   width, height, frame_area)
    IN  IF ~keep THEN <<>>
        ELSE << [ frame_index |-> frame_index,
                  timestamp |-> timestamp,
                  x1 |-> b.x1, y1 |-> b.y1, x2 |-> b.x2, y2 |-> b.y2,
                  score |-> b.score,
                  label |-> b.label,
                  area |-> t.area,
                  area_norm |-> t.area_norm,
                  threat_score |-> t.threat_score,
                  threat_level |-> t.threat_level ] >>

----------------------------------------------------------------------------
(* io_utils.save_events_summary *)

LevelOrder == <<"low", "medium", "high">>

\* characters in code-point order; Ord gives the rank used to compare str
CodeOrder ==
    <<"\t", "\n", "\r", " ", "0", "1", "2", "3", "4", "5", "6", "7", "8", "9">>
    \o UpperLetters \o LowerLetters

Ord(c) == CHOOSE i \in 1..Len(CodeOrder) : CodeOrder[i] = c

RECURSIVE StrLess(_, _)
StrLess(a, b) ==
    IF b = <<>> THEN FALSE
    ELSE IF a = <<>> THEN TRUE
    ELSE IF Head(a) = Head(b) THEN StrLess(Tail(a), Tail(b))
    ELSE Ord(Head(a)) < Ord(Head(b))

RECURSIVE Sorted_Descending(_)
\* a plausible slip: the keys are sorted with reverse=True
Sorted_Descending(S) ==
    IF S = {} THEN <<>>
    ELSE LET m == CHOOSE x \in S : \A y \in S \ {x} : StrLess(y, x)
         IN  <<m>> \o Sorted_Descending(S \ {m})

\* sorted(keys)
RECURSIVE Sorted(_)
Sorted(S) ==
    IF S = {} THEN <<>>
    ELSE LET m == CHOOSE x \in S : \A y \in S \ {x} : StrLess(x, y)
         IN  <<m>> \o Sorted(S \ {m})

\* a plausible slip: the creating detection is counted at creation and again
\* by the increment that follows
new_aggregate_CountOne(det) ==
    [ count |-> 1,
      first_frame_index |-> det.frame_index,
      last_frame_index |-> det.frame_index,
      first_timestamp |-> det.timestamp,
      last_timestamp |-> det.timestamp,
      min_score |-> det.score,
      max_score |-> det.score,
      score_sum |-> 0,
      max_threat_score |-> det.threat_score,
      threat_score_sum |-> 0,
      threat_level_counts |-> [lvl \in {"low", "medium", "high"} |-> 0] ]

\* the aggregate created for the first detection of a label
new_aggregate(det) ==
    [ count |-> 0,
      first_frame_index |-> det.frame_index,
      last_frame_index |-> det.frame_index,
      first_timestamp |-> det.timestamp,
      last_timestamp |-> det.timestamp,
      min_score |-> det.score,
      max_score |-> det.score,
      score_sum |-> 0,
      max_threat_score |-> det.threat_score,
      threat_score_sum |-> 0,
      threat_level_counts |-> [lvl \in {"low", "medium", "high"} |-> 0] ]

\* a plausible slip: first/last follow arrival order instead of min/max
update_aggregate_ArrivalOrder(s, det) ==
    [ s EXCEPT
        !.count = @ + 1,
        !.last_frame_index = det.frame_index,
        !.last_timestamp = det.timestamp,
        !.min_score = IF det.score < @ THEN det.score ELSE @,
        !.max_score = IF det.score > @ THEN det.score ELSE @,
        !.score_sum = @ + det.score,
        !.max_threat_score = IF det.threat_score > @ THEN det.threat_score ELSE @,
        !.threat_score_sum = @ + det.threat_score,
        !.threat_level_counts =
            IF det.threat_level \in DOMAIN @
            THEN [@ EXCEPT ![det.threat_level] = @ + 1]
            ELSE @ ]

\* a plausible slip: max_threat_score is the threat score seen last
update_aggregate_LastThreat(s, det) ==
    [ s EXCEPT
        !.count = @ + 1,
        !.first_frame_index = IF det.frame_index < @ THEN det.frame_index ELSE @,
        !.last_frame_index = IF det.frame_index > @ THEN det.frame_index ELSE @,
        !.first_timestamp = IF det.timestamp < @ THEN det.timestamp ELSE @,
        !.last_timestamp = IF det.timestamp > @ THEN det.timestamp ELSE @,
        !.min_score = IF det.score < @ THEN det.score ELSE @,
        !.max_score = IF det.score > @ THEN det.score ELSE @,
        !.score_sum = @ + det.score,
        !.max_threat_score = det.threat_score,
        !.threat_score_sum = @ + det.threat_score,
        !.threat_level_counts =
            IF det.threat_level \in DOMAIN @
            THEN [@ EXCEPT ![det.threat_level] = @ + 1]
            ELSE @ ]

\* a plausible slip: a level outside low/medium/high is tallied as low
update_aggregate_UnknownAsLow(s, det) ==
    [ s EXCEPT
        !.count = @ + 1,
        !.first_frame_index = IF det.frame_index < @ THEN det.frame_index ELSE @,
        !.last_frame_index = IF det.frame_index > @ THEN det.frame_index ELSE @,
        !.first_timestamp = IF det.timestamp < @ THEN det.timestamp ELSE @,
        !.last_timestamp = IF det.timestamp > @ THEN det.timestamp ELSE @,
        !.min_score = IF det.score < @ THEN det.score ELSE @,
        !.max_score = IF det.score > @ THEN det.score ELSE @,
        !.score_sum = @ + det.score,
        !.max_threat_score = IF det.threat_score > @ THEN det.threat_score ELSE @,
        !.threat_score_sum = @ + det.threat_score,
        !.threat_level_counts =
            IF det.threat_level \in DOMAIN @
            THEN [@ EXCEPT ![det.threat_level] = @ + 1]
            ELSE [@ EXCEPT !["low"] = @ + 1] ]

\* the body of the loop after s is found or created
update_aggregate(s, det) ==
    [ s EXCEPT
        !.count = @ + 1,
        !.first_frame_index = IF det.frame_index < @ THEN det.frame_index ELSE @,
        !.last_frame_index = IF det.frame_index > @ THEN det.frame_index ELSE @,
        !.first_timestamp = IF det.timestamp < @ THEN det.timestamp ELSE @,
        !.last_timestamp = IF det.timestamp > @ THEN det.timestamp ELSE @,
        !.min_score = IF det.score < @ THEN det.score ELSE @,
        !.max_score = IF det.score > @ THEN det.score ELSE @,
        !.score_sum = @ + det.score,
        !.max_threat_score = IF det.threat_score > @ THEN det.threat_score ELSE @,
        !.threat_score_sum = @ + det.threat_score,
        !.threat_level_counts =
            IF det.threat_level \in DOMAIN @
            THEN [@ EXCEPT ![det.threat_level] = @ + 1]
            ELSE @ ]

\* a plausible slip: the tally is one object shared by every label
observe_SharedTally(st, det) ==
    LET s == IF det.label \in DOMAIN st THEN st[det.label] ELSE new_aggregate(det)
        bump(c) == IF det.threat_level \in DOMAIN c
                   THEN [c EXCEPT ![det.threat_level] = @ + 1] ELSE c
    IN  [ l \in DOMAIN st \cup {det.label} |->
            IF l = det.label THEN update_aggregate(s, det)
            ELSE [ st[l] EXCEPT !.threat_level_counts = bump(@) ] ]

\* one iteration of "for det in detections_list"
observe(st, det) ==
    LET s == IF det.label \in DOMAIN st THEN st[det.label] ELSE new_aggregate(det)
    IN  [ l \in DOMAIN st \cup {det.label} |->
            IF l = det.label THEN update_aggregate(s, det) ELSE st[l] ]

\* the loop "for det in detections_list" from its k-th detection on
RECURSIVE FoldFrom(_, _, _)
FoldFrom(ds, k, st) ==
    IF k > Len(ds) THEN st ELSE FoldFrom(ds, k + 1, observe(st, ds[k]))

RECURSIVE PyMaxFrom(_, _, _)
\* max(LevelOrder, key=counts.get): a later level replaces best only if greater
PyMaxFrom(counts, i, best) ==
    IF i > Len(LevelOrder) THEN best
    ELSE PyMaxFrom(counts, i + 1,
                   IF counts[LevelOrder[i]] > counts[best]
                   THEN LevelOrder[i] ELSE best)

RECURSIVE PyMaxLastFrom(_, _, _)
PyMaxLastFrom(counts, i, best) ==
    IF i > Len(LevelOrder) THEN best
    ELSE PyMaxLastFrom(counts, i + 1,
                       IF counts[LevelOrder[i]] >= counts[best]
                       THEN LevelOrder[i] ELSE best)

\* a plausible slip: on a tie the last maximal level wins
dominant_level_of_LastMax(counts) == PyMaxLastFrom(counts, 2, LevelOrder[1])

dominant_level_of(counts) == PyMaxFrom(counts, 2, LevelOrder[1])

summary_row(l, s) ==
    [ label |-> l,
      count |-> s.count,
      first_frame_index |-> s.first_frame_index,
      last_frame_index |-> s.last_frame_index,
      first_timestamp |-> s.first_timestamp,
      last_timestamp |-> s.last_timestamp,
      min_score |-> s.min_score,
      max_score |-> s.max_score,
      mean_score |-> IF s.count > 0 THEN s.score_sum \div s.count ELSE 0,
      max_threat_score |-> s.max_threat_score,
      mean_threat_score |->
          IF s.count > 0 THEN s.threat_score_sum \div s.count ELSE 0,
      dominant_threat_level |-> dominant_level_of(s.threat_level_counts) ]

\* the rows written after the header, one per key of stats in sorted order
summary_rows(st) ==
    LET order == Sorted(DOMAIN st)
    IN  [ k \in 1..Len(order) |-> summary_row(order[k], st[order[k]]) ]

----------------------------------------------------------------------------
(* The rounding of float arithmetic.  Everything above adds and divides     *)
(* exactly.  Python's float keeps 53 significant bits and rounds every sum   *)
(* and quotient to the nearest float, ties to the even significand; the      *)
(* operators below do the same with FloatBits significant bits.  A float is  *)
(* a natural number of smallest units: n is a float when n = m * 2^k with    *)
(* m < 2^FloatBits.                                                          *)

FloatBits == 5

\* the least k >= from with a / n < 2^(FloatBits + k)
RECURSIVE float_exponent(_, _, _)
float_exponent(a, n, from) ==
    IF a < n * 2^(FloatBits + from) THEN from
    ELSE float_exponent(a, n, from + 1)

\* a / d rounded to the nearest integer, ties to even
round_half_even(a, d) ==
    LET q == a \div d
        r == a % d
    IN  IF 2 * r > d \/ (2 * r = d /\ q % 2 = 1) THEN q + 1 ELSE q

\* the float a / n
float_div(a, n) ==
    LET k == float_exponent(a, n, 0)
    IN  round_half_even(a, n * 2^k) * 2^k

\* the float a + b
float_add(a, b) == float_div(a + b, 1)

\* the body of the loop with "s["score_sum"] += det.score" and
\* "s["threat_score_sum"] += det.threat_score" as float additions
update_aggregate_float(s, det) ==
    [ update_aggregate(s, det) EXCEPT
        !.score_sum = float_add(s.score_sum, det.score),
        !.threat_score_sum = float_add(s.threat_score_sum, det.threat_score) ]

observe_float(st, det) ==
    LET s == IF det.label \in DOMAIN st THEN st[det.label] ELSE new_aggregate(det)
    IN  [ l \in DOMAIN st \cup {det.label} |->
            IF l = det.label THEN update_aggregate_float(s, det) ELSE st[l] ]

\* the row written, with the two means as float divisions
summary_row_float(l, s) ==
    [ summary_row(l, s) EXCEPT
        !.mean_score = IF s.count > 0 THEN float_div(s.score_sum, s.count) ELSE 0,
        !.mean_threat_score =
            IF s.count > 0 THEN float_div(s.threat_score_sum, s.count) ELSE 0 ]

summary_rows_float(st) ==
    LET order == Sorted(DOMAIN st)
    IN  [ k \in 1..Len(order) |-> summary_row_float(order[k], st[order[k]]) ]

----------------------------------------------------------------------------
(* tools/analyze_threat_motion.py: the rows of a csv file *)

\* A csv cell holding a number is modelled by what float() or int() makes of
\* its text: ok = TRUE and the number, or ok = FALSE when the text does not
\* parse.  A column the file does not have is a key outside DOMAIN of the row.
Num(n) == [ ok |-> TRUE, val |-> n ]
BadText == [ ok |-> FALSE, val |-> 0 ]

\* dataclasses.asdict, csv.DictWriter and csv.DictReader: the row a Detection
\* comes back as.  Numbers are written with str() and float(str(x)) = x, so
\* each cell parses to the number that was saved.
csv_row(det) ==
    [ frame_index |-> Num(det.frame_index), timestamp |-> Num(det.timestamp),
      x1 |-> Num(det.x1), y1 |-> Num(det.y1), x2 |-> Num(det.x2),
      y2 |-> Num(det.y2), score |-> Num(det.score), label |-> det.label,
      area |-> Num(det.area), area_norm |-> Num(det.area_norm),
      threat_score |-> Num(det.threat_score),
      threat_level |-> det.threat_level ]

csv_rows(dets) == [ k \in 1..Len(dets) |-> csv_row(dets[k]) ]

\* the fields of the Detection dataclass, in declaration order
DetectionFields ==
    << "frame_index", "timestamp", "x1", "y1", "x2", "y2", "score", "label",
       "area", "area_norm", "threat_score", "threat_level" >>

\* the fieldnames save_detections_csv writes for an empty list
empty_fieldnames ==
    << "frame_index", "timestamp", "x1", "y1", "x2", "y2", "score", "label" >>

\* the header line: list(asdict(detections[0]).keys()) unless the list is
\* empty
save_detections_csv_header(dets) ==
    IF dets = <<>> THEN empty_fieldnames ELSE DetectionFields

\* float(d[k]): KeyError for a missing column, ValueError for unparsable text
index_error(d, k) ==
    IF k \notin DOMAIN d THEN "KeyError"
    ELSE IF ~d[k].ok THEN "ValueError" ELSE ""

\* float(d.get(k, default)): only unparsable text raises
get_error(d, k) ==
    IF k \in DOMAIN d /\ ~d[k].ok THEN "ValueError" ELSE ""

\* d.get(k, default) once parsed
get_num(d, k, default) == IF k \in DOMAIN d THEN d[k].val ELSE default

\* d.get("label", "?")
get_label(d) == IF "label" \in DOMAIN d THEN d.label ELSE <<"?">>

RECURSIVE FirstError(_, _)
FirstError(errs, i) ==
    IF i > Len(errs) THEN ""
    ELSE IF errs[i] # "" THEN errs[i]
    ELSE FirstError(errs, i + 1)

SetMin(S) == CHOOSE m \in S : \A n \in S : m <= n
SetMax(S) == CHOOSE m \in S : \A n \in S : m >= n

\* the exception estimate_frame_size ends with: its four generators run one
\* after the other, each over the rows in order
frame_size_error(detections) ==
    LET n == Len(detections)
        col(k) == [ i \in 1..n |-> index_error(detections[i], k) ]
    IN  FirstError(col("x1") \o col("x2") \o col("y1") \o col("y2"), 1)

\* a plausible slip: the span is not floored at 1.0
estimate_frame_size_NoFloor(detections) ==
    IF detections = <<>> THEN <<1, 1>>
    ELSE LET n == Len(detections)
             min_x == SetMin({ detections[i].x1.val : i \in 1..n })
             max_x == SetMax({ detections[i].x2.val : i \in 1..n })
             min_y == SetMin({ detections[i].y1.val : i \in 1..n })
             max_y == SetMax({ detections[i].y2.val : i \in 1..n })
         IN  << max_x - min_x, max_y - min_y >>

\* a plausible slip: no size is made up for an empty list
estimate_frame_size_NoDefault(detections) ==
    IF detections = <<>> THEN <<0, 0>>
    ELSE LET n == Len(detections)
             min_x == SetMin({ detections[i].x1.val : i \in 1..n })
             max_x == SetMax({ detections[i].x2.val : i \in 1..n })
             min_y == SetMin({ detections[i].y1.val : i \in 1..n })
             max_y == SetMax({ detections[i].y2.val : i \in 1..n })
         IN  << Max(1, max_x - min_x), Max(1, max_y - min_y) >>

estimate_frame_size(detections) ==
    IF detections = <<>> THEN <<1, 1>>
    ELSE LET n == Len(detections)
             min_x == SetMin({ detections[i].x1.val : i \in 1..n })
             max_x == SetMax({ detections[i].x2.val : i \in 1..n })
             min_y == SetMin({ detections[i].y1.val : i \in 1..n })
             max_y == SetMax({ detections[i].y2.val : i \in 1..n })
         IN  << Max(1, max_x - min_x), Max(1, max_y - min_y) >>

\* the keys of by_label
LabelsOf(rs) == { get_label(rs[k]) : k \in 1..Len(rs) }

\* by_label: the labels in the order of their first row
RECURSIVE labels_in_order(_, _, _)
labels_in_order(detections, i, seen) ==
    IF i > Len(detections) THEN seen
    ELSE LET l == get_label(detections[i])
         IN  labels_in_order(detections, i + 1,
                 IF \E k \in 1..Len(seen) : seen[k] = l
                 THEN seen ELSE Append(seen, l))

\* a plausible slip: the rows are not grouped by label
rows_of_label_Any(detections, l) == detections

rows_of_label(detections, l) ==
    SelectSeq(detections, LAMBDA d : get_label(d) = l)

\* the sort key (timestamp, frame_index), with the defaults of r.get
sort_key(r) == << get_num(r, "timestamp", 0), get_num(r, "frame_index", 0) >>

key_less(a, b) == a[1] < b[1] \/ (a[1] = b[1] /\ a[2] < b[2])

\* sorted() is stable: a row goes behind every row whose key is not greater
RECURSIVE insert_sorted(_, _, _)
insert_sorted(srt, r, i) ==
    IF i > Len(srt) \/ key_less(sort_key(r), sort_key(srt[i]))
    THEN SubSeq(srt, 1, i - 1) \o <<r>> \o SubSeq(srt, i, Len(srt))
    ELSE insert_sorted(srt, r, i + 1)

RECURSIVE sorted_rows(_, _, _)
sorted_rows(rs, i, srt) ==
    IF i > Len(rs) THEN srt
    ELSE sorted_rows(rs, i + 1, insert_sorted(srt, rs[i], 1))

\* the exception the sort key ends with
sort_error(rs) ==
    FirstError([ i \in 1..(2 * Len(rs)) |->
                   IF i % 2 = 1 THEN get_error(rs[(i + 1) \div 2], "timestamp")
                   ELSE get_error(rs[i \div 2], "frame_index") ], 1)

\* a plausible slip: a gap of exactly max_dt is rejected
valid_dt_Exclusive(dt, maxdt) == dt > 0 /\ dt < maxdt

\* the negation of "dt <= 0 or dt > max_dt"
valid_dt(dt, maxdt) == ~(dt <= 0 \/ dt > maxdt)

\* the rows of a pair whose box cells do not all parse are skipped
box_error(prev, curr) ==
    FirstError(<< index_error(prev, "x1"), index_error(prev, "y1"),
                  index_error(prev, "x2"), index_error(prev, "y2"),
                  index_error(curr, "x1"), index_error(curr, "y1"),
                  index_error(curr, "x2"), index_error(curr, "y2") >>, 1)

\* hypot(dx, dy) where dx = (cx1 - cx0) / width and cx = 0.5 * (x1 + x2)
dist_norm_of(prev, curr, width, height) ==
    LET dx == (((curr.x1.val + curr.x2.val) - (prev.x1.val + prev.x2.val))
                  * SCALE) \div (2 * width)
        dy == (((curr.y1.val + curr.y2.val) - (prev.y1.val + prev.y2.val))
                  * SCALE) \div (2 * height)
    IN  ISqrt(dx * dx + dy * dy)

\* a plausible slip: the distance is not divided by dt
speed_norm_of_NoDt(dist_norm, dt) == dist_norm

speed_norm_of(dist_norm, dt) == (dist_norm * SCALE) \div dt

NoPairs == [ pair_count |-> 0, sum_speed_norm |-> 0, max_speed_norm |-> 0 ]

\* the loop over zip(rows_sorted, rows_sorted[1:])
RECURSIVE pair_loop(_, _, _, _, _, _)
pair_loop(rs, i, acc, width, height, maxdt) ==
    IF i >= Len(rs) THEN acc
    ELSE LET prev == rs[i]
             curr == rs[i + 1]
             dt == get_num(curr, "timestamp", 0) - get_num(prev, "timestamp", 0)
         IN  IF \/ get_error(prev, "timestamp") # ""
                \/ get_error(curr, "timestamp") # ""
                \/ ~valid_dt(dt, maxdt)
                \/ box_error(prev, curr) # ""
             THEN pair_loop(rs, i + 1, acc, width, height, maxdt)
             ELSE LET speed_norm ==
                          speed_norm_of(dist_norm_of(prev, curr, width, height),
                                        dt)
                  IN  pair_loop(rs, i + 1,
                          [ pair_count |-> acc.pair_count + 1,
                            sum_speed_norm |-> acc.sum_speed_norm + speed_norm,
                            max_speed_norm |->
                                IF speed_norm > acc.max_speed_norm
                                THEN speed_norm ELSE acc.max_speed_norm ],
                          width, height, maxdt)

\* a plausible slip: a label without a valid pair keeps an entry
label_stats_KeepEmpty(l, acc) ==
    << [ label |-> l, pairs |-> acc.pair_count,
         mean_speed_norm |-> acc.sum_speed_norm \div Max(1, acc.pair_count),
         max_speed_norm |-> acc.max_speed_norm ] >>

\* "if pair_count == 0: continue", else the entry stats[label]
label_stats(l, acc) ==
    IF acc.pair_count = 0 THEN <<>>
    ELSE << [ label |-> l, pairs |-> acc.pair_count,
              mean_speed_norm |-> acc.sum_speed_norm \div acc.pair_count,
              max_speed_norm |-> acc.max_speed_norm ] >>

\* the exception compute_motion_per_label ends with
motion_error(detections) ==
    IF detections = <<>> THEN ""
    ELSE LET order == labels_in_order(detections, 1, <<>>)
         IN  FirstError(<<frame_size_error(detections)>> \o
                        [ k \in 1..Len(order) |->
                            sort_error(rows_of_label(detections, order[k])) ],
                        1)

RECURSIVE motion_entries(_, _, _, _, _, _)
motion_entries(detections, order, k, width, height, maxdt) ==
    IF k > Len(order) THEN <<>>
    ELSE LET rows_sorted ==
                 sorted_rows(rows_of_label(detections, order[k]), 1, <<>>)
             acc == pair_loop(rows_sorted, 1, NoPairs, width, height, maxdt)
         IN  label_stats(order[k], acc) \o
             motion_entries(detections, order, k + 1, width, height, maxdt)

\* The dict returned, as its entries in insertion order.  Called only when
\* motion_error(detections) = "".
compute_motion_per_label(detections, maxdt) ==
    IF detections = <<>> THEN <<>>
    ELSE LET size == estimate_frame_size(detections)
         IN  motion_entries(detections, labels_in_order(detections, 1, <<>>),
                            1, size[1], size[2], maxdt)

\* the loop over the pairs with speed_norm as the float the division returns
\* and "sum_speed_norm += speed_norm" as a float addition
RECURSIVE pair_loop_float(_, _, _, _, _, _)
pair_loop_float(rs, i, acc, width, height, maxdt) ==
    IF i >= Len(rs) THEN acc
    ELSE LET prev == rs[i]
             curr == rs[i + 1]
             dt == get_num(curr, "timestamp", 0) - get_num(prev, "timestamp", 0)
         IN  IF \/ get_error(prev, "timestamp") # ""
                \/ get_error(curr, "timestamp") # ""
                \/ ~valid_dt(dt, maxdt)
                \/ box_error(prev, curr) # ""
             THEN pair_loop_float(rs, i + 1, acc, width, height, maxdt)
             ELSE LET speed_norm ==
                          float_div(dist_norm_of(prev, curr, width, height)
                                        * SCALE, dt)
                  IN  pair_loop_float(rs, i + 1,
                          [ pair_count |-> acc.pair_count + 1,
                            sum_speed_norm |->
                                float_add(acc.sum_speed_norm, speed_norm),
                            max_speed_norm |->
                                IF speed_norm > acc.max_speed_norm
                                THEN speed_norm ELSE acc.max_speed_norm ],
                          width, height, maxdt)

\* the entry stats[label] with "sum_speed_norm / pair_count" as a float
\* division
label_stats_float(l, acc) ==
    IF acc.pair_count = 0 THEN <<>>
    ELSE << [ label |-> l, pairs |-> acc.pair_count,
              mean_speed_norm |->
                  float_div(acc.sum_speed_norm, acc.pair_count),
              max_speed_norm |-> acc.max_speed_norm ] >>

RECURSIVE motion_entries_float(_, _, _, _, _, _)
motion_entries_float(detections, order, k, width, height, maxdt) ==
    IF k > Len(order) THEN <<>>
    ELSE LET rows_sorted ==
                 sorted_rows(rows_of_label(detections, order[k]), 1, <<>>)
             acc == pair_loop_float(rows_sorted, 1, NoPairs, width, height,
                                    maxdt)
         IN  label_stats_float(order[k], acc) \o
             motion_entries_float(detections, order, k + 1, width, height,
                                  maxdt)

compute_motion_per_label_float(detections, maxdt) ==
    IF detections = <<>> THEN <<>>
    ELSE LET size == estimate_frame_size(detections)
         IN  motion_entries_float(detections,
                                  labels_in_order(detections, 1, <<>>),
                                  1, size[1], size[2], maxdt)

----------------------------------------------------------------------------
(* tools/plot_threat_motion.py: compute_motion_per_label.  Its              *)
(* estimate_frame_size, its grouping by label and its sort are the text of   *)
(* tools/analyze_threat_motion.py, and are the operators above.              *)

plot_dist_norm_of(prev, curr, width, height) ==
    LET cx0 == prev.x1.val + prev.x2.val
        cy0 == prev.y1.val + prev.y2.val
        cx1 == curr.x1.val + curr.x2.val
        cy1 == curr.y1.val + curr.y2.val
        dx == ((cx1 - cx0) * SCALE) \div (2 * width)
        dy == ((cy1 - cy0) * SCALE) \div (2 * height)
    IN  ISqrt(dx * dx + dy * dy)

RECURSIVE plot_pair_loop(_, _, _, _, _, _)
plot_pair_loop(rs, i, acc, width, height, maxdt) ==
    IF i >= Len(rs) THEN acc
    ELSE LET prev == rs[i]
             curr == rs[i + 1]
             dt == get_num(curr, "timestamp", 0) - get_num(prev, "timestamp", 0)
         IN  IF \/ get_error(prev, "timestamp") # ""
                \/ get_error(curr, "timestamp") # ""
                \/ dt <= 0 \/ dt > maxdt
                \/ box_error(prev, curr) # ""
             THEN plot_pair_loop(rs, i + 1, acc, width, height, maxdt)
             ELSE LET speed_norm ==
                          (plot_dist_norm_of(prev, curr, width, height) * SCALE)
                              \div dt
                  IN  plot_pair_loop(rs, i + 1,
                          [ pair_count |-> acc.pair_count + 1,
                            sum_speed_norm |-> acc.sum_speed_norm + speed_norm,
                            max_speed_norm |->
                                IF speed_norm > acc.max_speed_norm
                                THEN speed_norm ELSE acc.max_speed_norm ],
                          width, height, maxdt)

plot_label_stats(l, acc) ==
    IF acc.pair_count = 0 THEN <<>>
    ELSE << [ label |-> l, pairs |-> acc.pair_count,
              mean_speed_norm |-> acc.sum_speed_norm \div acc.pair_count,
              max_speed_norm |-> acc.max_speed_norm ] >>

RECURSIVE plot_motion_entries(_, _, _, _, _, _)
plot_motion_entries(detections, order, k, width, height, maxdt) ==
    IF k > Len(order) THEN <<>>
    ELSE LET rows_sorted ==
                 sorted_rows(rows_of_label(detections, order[k]), 1, <<>>)
             acc == plot_pair_loop(rows_sorted, 1, NoPairs, width, height,
                                   maxdt)
         IN  plot_label_stats(order[k], acc) \o
             plot_motion_entries(detections, order, k + 1, width, height,
                                 maxdt)

plot_compute_motion_per_label(detections, maxdt) ==
    IF detections = <<>> THEN <<>>
    ELSE LET size == estimate_frame_size(detections)
         IN  plot_motion_entries(detections,
                                 labels_in_order(detections, 1, <<>>),
                                 1, size[1], size[2], maxdt)

----------------------------------------------------------------------------
(* tools/analyze_motion.py: analyze_motion.  Its estimate_frame_size, its    *)
(* grouping by label and its sort are again the same text.  Pixel distances  *)
(* and speeds are in units of 1 / PX of a pixel.                             *)

PX == SCALE \div 100

\* twice the displacement of the box centre, in pixels
analyze_centre_shift(prev, curr) ==
    << (curr.x1.val + curr.x2.val) - (prev.x1.val + prev.x2.val),
       (curr.y1.val + curr.y2.val) - (prev.y1.val + prev.y2.val) >>

\* dist_px = hypot(dx, dy)
analyze_dist_px(prev, curr) ==
    LET d == analyze_centre_shift(prev, curr)
    IN  ISqrt((d[1] * PX) * (d[1] * PX) + (d[2] * PX) * (d[2] * PX)) \div 2

\* a plausible slip: both axes are normalised by the width
analyze_dist_norm_WidthOnly(prev, curr, width, height) ==
    LET d == analyze_centre_shift(prev, curr)
        dx_norm == (d[1] * SCALE) \div (2 * width)
        dy_norm == (d[2] * SCALE) \div (2 * width)
    IN  ISqrt(dx_norm * dx_norm + dy_norm * dy_norm)

\* dist_norm = hypot(dx / width, dy / height)
analyze_dist_norm(prev, curr, width, height) ==
    LET d == analyze_centre_shift(prev, curr)
        dx_norm == (d[1] * SCALE) \div (2 * width)
        dy_norm == (d[2] * SCALE) \div (2 * height)
    IN  ISqrt(dx_norm * dx_norm + dy_norm * dy_norm)

NoPxPairs ==
    [ pair_count |-> 0, sum_speed_px |-> 0, max_speed_px |-> 0,
      sum_speed_norm |-> 0 ]

RECURSIVE analyze_pair_loop(_, _, _, _, _, _)
analyze_pair_loop(rs, i, acc, width, height, maxdt) ==
    IF i >= Len(rs) THEN acc
    ELSE LET prev == rs[i]
             curr == rs[i + 1]
             dt == get_num(curr, "timestamp", 0) - get_num(prev, "timestamp", 0)
         IN  IF \/ get_error(prev, "timestamp") # ""
                \/ get_error(curr, "timestamp") # ""
                \/ dt <= 0 \/ dt > maxdt
                \/ box_error(prev, curr) # ""
             THEN analyze_pair_loop(rs, i + 1, acc, width, height, maxdt)
             ELSE LET speed_px == (analyze_dist_px(prev, curr) * SCALE) \div dt
                      speed_norm ==
                          (analyze_dist_norm(prev, curr, width, height) * SCALE)
                              \div dt
                  IN  analyze_pair_loop(rs, i + 1,
                          [ pair_count |-> acc.pair_count + 1,
                            sum_speed_px |-> acc.sum_speed_px + speed_px,
                            max_speed_px |->
                                IF speed_px > acc.max_speed_px
                                THEN speed_px ELSE acc.max_speed_px,
                            sum_speed_norm |-> acc.sum_speed_norm + speed_norm ],
                          width, height, maxdt)

analyze_label_stats(l, acc) ==
    IF acc.pair_count = 0 THEN <<>>
    ELSE << [ label |-> l, pairs |-> acc.pair_count,
              mean_speed_px |-> acc.sum_speed_px \div acc.pair_count,
              max_speed_px |-> acc.max_speed_px,
              mean_speed_norm |-> acc.sum_speed_norm \div acc.pair_count ] >>

RECURSIVE analyze_entries(_, _, _, _, _, _)
analyze_entries(detections, order, k, width, height, maxdt) ==
    IF k > Len(order) THEN <<>>
    ELSE LET rows_sorted ==
                 sorted_rows(rows_of_label(detections, order[k]), 1, <<>>)
             acc == analyze_pair_loop(rows_sorted, 1, NoPxPairs, width, height,
                                      maxdt)
         IN  analyze_label_stats(order[k], acc) \o
             analyze_entries(detections, order, k + 1, width, height, maxdt)

analyze_motion(detections, maxdt) ==
    IF detections = <<>> THEN <<>>
    ELSE LET size == estimate_frame_size(detections)
         IN  analyze_entries(detections, labels_in_order(detections, 1, <<>>),
                             1, size[1], size[2], maxdt)

----------------------------------------------------------------------------
(* cli.run and config.RuntimeConfig *)

\* the fields the dataclass declares, and their defaults
RuntimeConfigFields ==
    { "show_preview", "save_video", "output_video_path", "output_json_path",
      "output_csv_path" }

RuntimeConfigDefaults ==
    [ show_preview |-> TRUE, save_video |-> FALSE,
      output_video_path |-> "output_detection.mp4",
      output_json_path |-> "detections.json",
      output_csv_path |-> "detections.csv" ]

\* the keyword arguments run passes to RuntimeConfig
run_kwargs(a) ==
    [ show_preview |-> ~a.no_preview, save_video |-> a.save_video,
      output_video_path |-> a.video_out, output_json_path |-> a.json_out,
      output_csv_path |-> a.csv_out, show_stats |-> ~a.no_stats ]

\* the __init__ a dataclass generates takes its fields and nothing else
dataclass_error(kwargs) ==
    IF DOMAIN kwargs \subseteq RuntimeConfigFields THEN "" ELSE "TypeError"

RuntimeConfig(kwargs) ==
    [ f \in RuntimeConfigFields |->
        IF f \in DOMAIN kwargs THEN kwargs[f] ELSE RuntimeConfigDefaults[f] ]

NoArgs == [ x \in {} |-> FALSE ]
NoConfig == [ x \in {} |-> FALSE ]

\* cv2.waitKey(1) & 0xFF: ESC, q, or no key
KeyEsc == 27
KeyQ == 113
KeyNone == 255

----------------------------------------------------------------------------
(* tools/analyze_threat_motion.py: main *)

\* the row an entry of the events summary comes back as
events_row(row) ==
    [ label |-> row.label, count |-> Num(row.count),
      first_frame_index |-> Num(row.first_frame_index),
      last_frame_index |-> Num(row.last_frame_index),
      first_timestamp |-> Num(row.first_timestamp),
      last_timestamp |-> Num(row.last_timestamp),
      min_score |-> Num(row.min_score), max_score |-> Num(row.max_score),
      mean_score |-> Num(row.mean_score),
      max_threat_score |-> Num(row.max_threat_score),
      mean_threat_score |-> Num(row.mean_threat_score),
      dominant_threat_level |-> row.dominant_threat_level ]

\* float(r.get(k, 0.0)) and int(r.get(k, 0)) inside try/except ValueError
get_or_zero(r, k) == IF k \in DOMAIN r /\ r[k].ok THEN r[k].val ELSE 0

\* the value stored in threat_by_label for one row
threat_entry(r) ==
    [ mean_threat |-> get_or_zero(r, "mean_threat_score"),
      dominant_level |-> IF "dominant_threat_level" \in DOMAIN r
                         THEN r.dominant_threat_level ELSE "?",
      count |-> get_or_zero(r, "count") ]

\* threat_by_label: a later row of a label replaces an earlier one
threat_by_label(events) ==
    [ l \in LabelsOf(events) |->
        threat_entry(events[SetMax({ k \in 1..Len(events) :
                                       get_label(events[k]) = l })]) ]

\* a plausible slip: the two means are added
moving_threat_index_Sum(mean_threat, mean_speed_norm) ==
    mean_threat + mean_speed_norm

moving_threat_index_of(mean_threat, mean_speed_norm) ==
    (mean_threat * mean_speed_norm) \div SCALE

combined_entry(m, t) ==
    [ label |-> m.label,
      mean_threat |-> t.mean_threat,
      dominant_level |-> t.dominant_level,
      count |-> t.count,
      pairs |-> m.pairs,
      mean_speed_norm |-> m.mean_speed_norm,
      max_speed_norm |-> m.max_speed_norm,
      moving_threat_index |->
          moving_threat_index_of(t.mean_threat, m.mean_speed_norm) ]

\* the loop over motion_stats.items(): a label without a threat row is skipped
RECURSIVE build_combined(_, _, _)
build_combined(threat, motion, k) ==
    IF k > Len(motion) THEN <<>>
    ELSE (IF motion[k].label \in DOMAIN threat
          THEN << combined_entry(motion[k], threat[motion[k].label]) >>
          ELSE <<>>)
         \o build_combined(threat, motion, k + 1)

\* sorted(combined, key=moving_threat_index, reverse=True) keeps entries of
\* equal key in the order they have in combined
RECURSIVE insert_descending(_, _, _)
insert_descending(srt, e, i) ==
    IF i > Len(srt) \/ e.moving_threat_index > srt[i].moving_threat_index
    THEN SubSeq(srt, 1, i - 1) \o <<e>> \o SubSeq(srt, i, Len(srt))
    ELSE insert_descending(srt, e, i + 1)

RECURSIVE sorted_combined(_, _, _)
sorted_combined(entries, i, srt) ==
    IF i > Len(entries) THEN srt
    ELSE sorted_combined(entries, i + 1, insert_descending(srt, entries[i], 1))

----------------------------------------------------------------------------
(* Input domains *)

Car == <<"c", "a", "r">>
Drone == <<"d", "r", "o", "n", "e">>
Person == <<"p", "e", "r", "s", "o", "n">>

\* scorer inputs: labels of each safety class (one padded and capitalised),
\* confidences below, inside and above [0,1], boxes that are regular,
\* inverted on one or both axes or larger than the frame, and frames that
\* are regular, empty or of negative size
ScoreLabels == { Car, <<" ", "D", "r", "o", "n", "e">>, Person }
Scores == { -(SCALE \div 2), SCALE \div 10, SCALE \div 2, (9 * SCALE) \div 10,
            (3 * SCALE) \div 2 }
Xs == { -5, 5, 15, 25 }
Ys == { -5, 8, 12, 25 }
FrameDims == { -20, 0, 20, 50 }

ScoreInputs ==
    [ label : ScoreLabels, score : Scores,
      x1 : Xs, y1 : Ys, x2 : Xs, y2 : Ys,
      width : FrameDims, height : FrameDims ]

NoInput ==
    [ label |-> <<>>, score |-> 0, x1 |-> 0, y1 |-> 0, x2 |-> 0, y2 |-> 0,
      width |-> 0, height |-> 0 ]

NoMetrics ==
    [ threat_score |-> 0, threat_level |-> "", area |-> 0, area_norm |-> 0,
      proximity |-> 0, safety_bias |-> 0 ]

\* summary inputs: detections as detect emits them for a centred box, for
\* two labels, three confidences (one per threat level) and three frames
\* whose timestamps do not follow their frame indices
MaxDet == 3

AggLabels == { Car, Drone }
AggScores == { SCALE \div 10, SCALE \div 2, (9 * SCALE) \div 10 }
FrameStamps == { <<0, 0>>, <<1, SCALE \div 2>>, <<2, SCALE \div 4>> }

AggDetections ==
    { detect([ label |-> l, score |-> s, x1 |-> 5, y1 |-> 8, x2 |-> 15,
               y2 |-> 12, width |-> 20, height |-> 20 ],
             f[1], f[2], TRUE)[1] :
        l \in AggLabels, s \in AggScores, f \in FrameStamps }

DetectionLists == UNION { [1..n -> AggDetections] : n \in 0..MaxDet }

NoStats == [l \in {} |-> 0]

\* tally inputs: the detections of frame 0 above with the lowest and the
\* highest confidence, each with any of the three levels or with a
\* threat_level that is none of them
OtherLevel == "critical"

TallyDetections ==
    { [ d EXCEPT !.threat_level = v ] :
        d \in { a \in AggDetections :
                  a.frame_index = 0 /\ a.score # SCALE \div 2 },
        v \in { "low", "medium", "high", OtherLevel } }

TallyLists == UNION { [1..n -> TallyDetections] : n \in 0..MaxDet }

\* float inputs: the detections of frame 0 above with a score and a threat
\* score that are floats of FloatBits bits in one binade
FloatScores == { 36, 44, 52 }

FloatDetections ==
    { [ d EXCEPT !.score = v, !.threat_score = t ] :
        d \in { a \in AggDetections :
                  a.frame_index = 0 /\ a.score = SCALE \div 2 },
        v \in FloatScores, t \in FloatScores }

FloatLists == UNION { [1..n -> FloatDetections] : n \in 0..MaxDet }

MaxTally == 3

Tallies == [ {"low", "medium", "high"} -> 0..MaxTally ]

NoTally == [lvl \in {"low", "medium", "high"} |-> 0]

\* motion inputs: the rows of detections saved by detect on a 100 x 100
\* frame, for two labels, two 10 x 10 boxes ten pixels apart, one box that
\* spans the frame's width, and three frames 0.5 s and 1.0 s apart
MotionBoxes == { <<45, 45, 55, 55>>, <<55, 45, 65, 55>>, <<0, 0, 100, 80>> }
MotionStamps == { <<0, 0>>, <<1, SCALE \div 2>>, <<2, (3 * SCALE) \div 2>> }

MotionDetections ==
    { detect([ label |-> l, score |-> SCALE \div 2, x1 |-> b[1], y1 |-> b[2],
               x2 |-> b[3], y2 |-> b[4], width |-> 100, height |-> 100 ],
             f[1], f[2], TRUE)[1] :
        l \in AggLabels, b \in MotionBoxes, f \in MotionStamps }

MotionLists == UNION { [1..n -> MotionDetections] : n \in 0..MaxDet }

\* --max-dt: its default 1.0 and 0.5
default_max_dt == SCALE
MaxDts == { SCALE \div 2, default_max_dt }

\* correlator inputs: an events file as save_events_summary writes it and a
\* detections file of up to MaxRows rows.  The events rows give car a mean
\* threat of 0.3 or 0.6 and drone 0.6; the detections of a label stand still
\* or move ten pixels in 0.5 s.
MaxRows == 4

\* float motion inputs: up to MaxRows rows of one label, the k-th of frame
\* k - 1, 0.75 s apart, each with one of four boxes 25 pixels apart
StepBoxes ==
    { <<0, 0, 25, 80>>, <<25, 0, 50, 80>>, <<50, 0, 75, 80>>,
      <<75, 0, 100, 80>> }

StepDetection(k, b) ==
    detect([ label |-> Drone, score |-> SCALE \div 2, x1 |-> b[1],
             y1 |-> b[2], x2 |-> b[3], y2 |-> b[4], width |-> 100,
             height |-> 100 ],
           k - 1, (k - 1) * ((3 * SCALE) \div 4), TRUE)[1]

StepLists ==
    UNION { { [ k \in 1..n |-> StepDetection(k, bs[k]) ] :
                bs \in [1..n -> StepBoxes] } : n \in 0..MaxRows }

EventOf(l, mean_threat) ==
    events_row([ label |-> l, count |-> 2,
                 first_frame_index |-> 0, last_frame_index |-> 1,
                 first_timestamp |-> 0, last_timestamp |-> SCALE \div 2,
                 min_score |-> SCALE \div 2, max_score |-> SCALE \div 2,
                 mean_score |-> SCALE \div 2,
                 max_threat_score |-> mean_threat,
                 mean_threat_score |-> mean_threat,
                 dominant_threat_level |-> "medium" ])

CorrEvents ==
    { EventOf(Car, (3 * SCALE) \div 10), EventOf(Car, (6 * SCALE) \div 10),
      EventOf(Drone, (6 * SCALE) \div 10) }

\* an events file has one row per label, in ascending label order
EventLists ==
    { es \in UNION { [1..n -> CorrEvents] : n \in 0..Cardinality(AggLabels) } :
        \A i, j \in 1..Len(es) : i < j => StrLess(es[i].label, es[j].label) }

CorrShots ==
    { <<0, 0, 45, 55>>, <<1, SCALE \div 2, 55, 65>>, <<1, SCALE \div 2, 45, 55>> }

CorrDetections ==
    { detect([ label |-> l, score |-> SCALE \div 2, x1 |-> c[3], y1 |-> 45,
               x2 |-> c[4], y2 |-> 55, width |-> 100, height |-> 100 ],
             c[1], c[2], TRUE)[1] :
        l \in AggLabels, c \in CorrShots }

CorrLists == UNION { [1..n -> CorrDetections] : n \in 0..MaxRows }

\* malformed inputs: a file that lacks one column, or one of whose cells
\* holds text that is not a number
drop_column(rs, k) ==
    [ i \in 1..Len(rs) |-> [ c \in DOMAIN rs[i] \ {k} |-> rs[i][c] ] ]

bad_cell(rs, i, k) == [ rs EXCEPT ![i] = [ @ EXCEPT ![k] = BadText ] ]

DetNumberColumns == { "timestamp", "frame_index", "x1", "y1", "x2", "y2" }
EventNumberColumns == { "mean_threat_score", "count" }

Corruptions(rs, numberColumns) ==
    { drop_column(rs, k) : k \in numberColumns \cup {"label"} }
      \cup { bad_cell(rs, i, k) : i \in 1..Len(rs), k \in numberColumns }

DroneShots ==
    { d \in CorrDetections :
        d.label = Drone /\ (d.frame_index = 0 \/ d.x1 = 55) }

CleanDetFiles ==
    { csv_rows(ds) : ds \in UNION { [1..n -> DroneShots] : n \in 0..MaxDet } }

MalformedDetFiles ==
    UNION { Corruptions(rs, DetNumberColumns) : rs \in CleanDetFiles \ {<<>>} }

MalformedEventFiles ==
    UNION { Corruptions(es, EventNumberColumns) : es \in EventLists \ {<<>>} }

\* frame size inputs: the rows of up to MaxDet drone detections whose box
\* is regular, a single point, inverted (two of these, one pixel apart) or
\* as wide as the frame, at 0.0 s or 0.5 s
SizeBoxes ==
    { <<45, 45, 55, 55>>, <<50, 50, 50, 50>>, <<51, 51, 49, 49>>,
      <<52, 51, 50, 49>>, <<0, 0, 100, 80>> }
SizeStamps == { <<0, 0>>, <<1, SCALE \div 2>> }

SizeDetections ==
    { detect([ label |-> Drone, score |-> SCALE \div 2, x1 |-> b[1],
               y1 |-> b[2], x2 |-> b[3], y2 |-> b[4], width |-> 100,
               height |-> 100 ],
             f[1], f[2], TRUE)[1] :
        b \in SizeBoxes, f \in SizeStamps }

SizeLists == UNION { [1..n -> SizeDetections] : n \in 0..MaxDet }

\* pipeline inputs: the detections of one session, up to MaxDet of them
PipeLists == UNION { [1..n -> CorrDetections] : n \in 0..MaxDet }

\* command lines: the three switches and, for each output, its default path
\* or another one
RunArgs ==
    [ no_preview : BOOLEAN, save_video : BOOLEAN, no_stats : BOOLEAN,
      video_out : {"output_detection.mp4", "run1.mp4"},
      json_out : {"detections.json", "run1.json"},
      csv_out : {"detections.csv", "run1.csv", "run1"} ]

\* frames: up to MaxFrames of them are read; on each the model finds one
\* drone box, which the class filter keeps or drops, one Tick or one and a
\* half after the frame before
MaxFrames == 3

Tick == SCALE \div 4

FrameBox ==
    [ label |-> Drone, score |-> SCALE \div 2, x1 |-> 5, y1 |-> 8, x2 |-> 15,
      y2 |-> 12, width |-> 20, height |-> 20 ]

FrameTimes(k) == { k * Tick, k * Tick + Tick \div 2 }

Keys == { KeyEsc, KeyQ, KeyNone }

----------------------------------------------------------------------------
(* The components a specification does not run stay as constructed *)

IdleLabel == label = PyNone /\ safety = ""
IdleScore == inp = NoInput /\ metrics = NoMetrics /\ emitted = <<>>
IdleAgg == detections_list = <<>> /\ idx = 0 /\ stats = NoStats /\ rows = <<>>
IdleDom == level_counts = NoTally /\ dominant_level = ""
IdleCli ==
    /\ args = NoArgs /\ rt_cfg = NoConfig /\ writer = FALSE
    /\ run_frame_index = 0
    /\ all_detections = <<>> /\ detect_frames = <<>>
IdleTools ==
    /\ det_rows = <<>> /\ max_dt = 0 /\ frame_size = <<0, 0>>
    /\ motion_stats = <<>> /\ csv_header = <<>> /\ events_rows = <<>>
    /\ combined = <<>> /\ err = ""

----------------------------------------------------------------------------
(* SpecLabel: one call of classify_label_safety *)

InitLabel ==
    /\ pc = "call"
    /\ label \in LabelInputs
    /\ safety = ""
    /\ IdleScore /\ IdleAgg /\ IdleDom /\ IdleTools /\ IdleCli

ClassifyLabel ==
    /\ pc = "call"
    /\ safety' = classify_label_safety(label)
    /\ pc' = "done"
    /\ UNCHANGED <<label, scoreVars, aggVars, domVars, toolVars, cliVars>>

NextLabel == ClassifyLabel

SpecLabel == InitLabel /\ [][NextLabel]_vars

----------------------------------------------------------------------------
(* SpecScore: one model box on one frame, given either to                  *)
(* compute_threat_metrics or to YoloDetector.detect                        *)

InitScore ==
    /\ pc = "call"
    /\ inp \in ScoreInputs
    /\ metrics = NoMetrics
    /\ emitted = <<>>
    /\ IdleLabel /\ IdleAgg /\ IdleDom /\ IdleTools /\ IdleCli

ComputeThreatMetrics ==
    /\ pc = "call"
    /\ metrics' = compute_threat_metrics(inp.label, inp.score, inp.x1, inp.y1,
                                         inp.x2, inp.y2, inp.width, inp.height)
    /\ pc' = "scored"
    /\ UNCHANGED <<inp, emitted, labelVars, aggVars, domVars, toolVars, cliVars>>

Detect ==
    /\ pc = "call"
    /\ inp.width >= 0 /\ inp.height >= 0
    /\ \E keep \in BOOLEAN : emitted' = detect(inp, 0, 0, keep)
    /\ pc' = "detected"
    /\ UNCHANGED <<inp, metrics, labelVars, aggVars, domVars, toolVars, cliVars>>

NextScore == ComputeThreatMetrics \/ Detect

SpecScore == InitScore /\ [][NextScore]_vars

----------------------------------------------------------------------------
(* Spec: one call of save_events_summary *)

Init ==
    /\ pc = "call"
    /\ detections_list \in DetectionLists
    /\ idx = 0
    /\ stats = NoStats
    /\ rows = <<>>
    /\ IdleLabel /\ IdleScore /\ IdleDom /\ IdleTools /\ IdleCli

\* "if not detections_list": the header alone is written
SummaryEmpty ==
    /\ pc = "call"
    /\ detections_list = <<>>
    /\ rows' = <<>>
    /\ pc' = "done"
    /\ UNCHANGED <<detections_list, idx, stats, labelVars, scoreVars, domVars, toolVars, cliVars>>

\* one iteration of the loop over detections_list
SummaryFold ==
    /\ pc \in {"call", "loop"}
    /\ idx < Len(detections_list)
    /\ stats' = observe(stats, detections_list[idx + 1])
    /\ idx' = idx + 1
    /\ pc' = "loop"
    /\ UNCHANGED <<detections_list, rows, labelVars, scoreVars, domVars, toolVars, cliVars>>

\* the loop is over: the header and the rows are written
SummaryWrite ==
    /\ pc = "loop"
    /\ idx = Len(detections_list)
    /\ rows' = summary_rows(stats)
    /\ pc' = "done"
    /\ UNCHANGED <<detections_list, idx, stats, labelVars, scoreVars, domVars, toolVars, cliVars>>

Next == SummaryEmpty \/ SummaryFold \/ SummaryWrite

Spec == Init /\ [][Next]_vars

----------------------------------------------------------------------------
(* SpecTally: save_events_summary on detections whose threat_level is any  *)
(* string                                                                   *)

InitTally ==
    /\ pc = "call"
    /\ detections_list \in TallyLists
    /\ idx = 0
    /\ stats = NoStats
    /\ rows = <<>>
    /\ IdleLabel /\ IdleScore /\ IdleDom /\ IdleTools /\ IdleCli

SpecTally == InitTally /\ [][Next]_vars

----------------------------------------------------------------------------
(* SpecFloatSummary: save_events_summary with the sums and the means as     *)
(* float operations                                                         *)

InitFloatSummary ==
    /\ pc = "call"
    /\ detections_list \in FloatLists
    /\ idx = 0
    /\ stats = NoStats
    /\ rows = <<>>
    /\ IdleLabel /\ IdleScore /\ IdleDom /\ IdleTools /\ IdleCli

\* one iteration of the loop over detections_list
SummaryFoldFloat ==
    /\ pc \in {"call", "loop"}
    /\ idx < Len(detections_list)
    /\ stats' = observe_float(stats, detections_list[idx + 1])
    /\ idx' = idx + 1
    /\ pc' = "loop"
    /\ UNCHANGED <<detections_list, rows, labelVars, scoreVars, domVars, toolVars, cliVars>>

\* the loop is over: the header and the rows are written
SummaryWriteFloat ==
    /\ pc = "loop"
    /\ idx = Len(detections_list)
    /\ rows' = summary_rows_float(stats)
    /\ pc' = "done"
    /\ UNCHANGED <<detections_list, idx, stats, labelVars, scoreVars, domVars, toolVars, cliVars>>

NextFloatSummary == SummaryEmpty \/ SummaryFoldFloat \/ SummaryWriteFloat

SpecFloatSummary == InitFloatSummary /\ [][NextFloatSummary]_vars

----------------------------------------------------------------------------
(* SpecDominant: the dominant level of one tally *)

InitDominant ==
    /\ pc = "call"
    /\ level_counts \in Tallies
    /\ dominant_level = ""
    /\ IdleLabel /\ IdleScore /\ IdleAgg /\ IdleTools /\ IdleCli

ComputeDominant ==
    /\ pc = "call"
    /\ dominant_level' = dominant_level_of(level_counts)
    /\ pc' = "done"
    /\ UNCHANGED <<level_counts, labelVars, scoreVars, aggVars, toolVars, cliVars>>

NextDominant == ComputeDominant

SpecDominant == InitDominant /\ [][NextDominant]_vars

----------------------------------------------------------------------------
(* SpecMotion: the rows of one detections.csv, given either to             *)
(* estimate_frame_size or to compute_motion_per_label                       *)

InitMotion ==
    /\ pc = "call"
    /\ \E ds \in MotionLists : det_rows = csv_rows(ds)
    /\ max_dt \in MaxDts
    /\ frame_size = <<0, 0>> /\ motion_stats = <<>> /\ csv_header = <<>>
    /\ events_rows = <<>> /\ combined = <<>> /\ err = ""
    /\ IdleLabel /\ IdleScore /\ IdleAgg /\ IdleDom /\ IdleCli

EstimateFrameSize ==
    /\ pc = "call"
    /\ err' = (IF det_rows = <<>> THEN "" ELSE frame_size_error(det_rows))
    /\ IF err' = ""
       THEN pc' = "sized" /\ frame_size' = estimate_frame_size(det_rows)
       ELSE pc' = "raised" /\ UNCHANGED frame_size
    /\ UNCHANGED <<det_rows, max_dt, motion_stats, csv_header, events_rows,
                   combined, labelVars, scoreVars, aggVars, domVars, cliVars>>

ComputeMotion ==
    /\ pc = "call"
    /\ err' = motion_error(det_rows)
    /\ IF err' = ""
       THEN /\ pc' = "estimated"
            /\ motion_stats' = compute_motion_per_label(det_rows, max_dt)
       ELSE pc' = "raised" /\ UNCHANGED motion_stats
    /\ UNCHANGED <<det_rows, max_dt, frame_size, csv_header, events_rows,
                   combined, labelVars, scoreVars, aggVars, domVars, cliVars>>

NextMotion == EstimateFrameSize \/ ComputeMotion

SpecMotion == InitMotion /\ [][NextMotion]_vars

----------------------------------------------------------------------------
(* SpecFloatMotion: compute_motion_per_label with the speeds, their sum and *)
(* their mean as float operations                                           *)

InitFloatMotion ==
    /\ pc = "call"
    /\ \E ds \in StepLists : det_rows = csv_rows(ds)
    /\ max_dt \in MaxDts
    /\ frame_size = <<0, 0>> /\ motion_stats = <<>> /\ csv_header = <<>>
    /\ events_rows = <<>> /\ combined = <<>> /\ err = ""
    /\ IdleLabel /\ IdleScore /\ IdleAgg /\ IdleDom /\ IdleCli

ComputeMotionFloat ==
    /\ pc = "call"
    /\ err' = motion_error(det_rows)
    /\ IF err' = ""
       THEN /\ pc' = "estimated"
            /\ motion_stats' = compute_motion_per_label_float(det_rows, max_dt)
       ELSE pc' = "raised" /\ UNCHANGED motion_stats
    /\ UNCHANGED <<det_rows, max_dt, frame_size, csv_header, events_rows,
                   combined, labelVars, scoreVars, aggVars, domVars, cliVars>>

NextFloatMotion == EstimateFrameSize \/ ComputeMotionFloat

SpecFloatMotion == InitFloatMotion /\ [][NextFloatMotion]_vars

----------------------------------------------------------------------------
(* SpecCopies: the three copies of the motion estimator on the same rows    *)

PlotComputeMotion ==
    /\ pc = "call"
    /\ err' = motion_error(det_rows)
    /\ IF err' = ""
       THEN /\ pc' = "estimated"
            /\ motion_stats' = plot_compute_motion_per_label(det_rows, max_dt)
       ELSE pc' = "raised" /\ UNCHANGED motion_stats
    /\ UNCHANGED <<det_rows, max_dt, frame_size, csv_header, events_rows,
                   combined, labelVars, scoreVars, aggVars, domVars, cliVars>>

AnalyzeMotion ==
    /\ pc = "call"
    /\ err' = motion_error(det_rows)
    /\ IF err' = ""
       THEN /\ pc' = "estimated"
            /\ motion_stats' = analyze_motion(det_rows, max_dt)
       ELSE pc' = "raised" /\ UNCHANGED motion_stats
    /\ UNCHANGED <<det_rows, max_dt, frame_size, csv_header, events_rows,
                   combined, labelVars, scoreVars, aggVars, domVars, cliVars>>

NextCopies == ComputeMotion \/ PlotComputeMotion \/ AnalyzeMotion

SpecCopies == InitMotion /\ [][NextCopies]_vars

----------------------------------------------------------------------------
(* SpecFrameSize: the same two calls on rows whose boxes may be points or  *)
(* inverted                                                                 *)

InitFrameSize ==
    /\ pc = "call"
    /\ \E ds \in SizeLists : det_rows = csv_rows(ds)
    /\ max_dt = default_max_dt
    /\ frame_size = <<0, 0>> /\ motion_stats = <<>> /\ csv_header = <<>>
    /\ events_rows = <<>> /\ combined = <<>> /\ err = ""
    /\ IdleLabel /\ IdleScore /\ IdleAgg /\ IdleDom /\ IdleCli

SpecFrameSize == InitFrameSize /\ [][NextMotion]_vars

----------------------------------------------------------------------------
(* SpecCorrelate: one run of analyze_threat_motion.main on an events file  *)
(* and a detections file                                                    *)

InitCorrelate ==
    /\ pc = "main"
    /\ \E es \in EventLists : events_rows = es
    /\ \E ds \in CorrLists : det_rows = csv_rows(ds)
    /\ max_dt = default_max_dt
    /\ frame_size = <<0, 0>> /\ motion_stats = <<>> /\ csv_header = <<>>
    /\ combined = <<>> /\ err = ""
    /\ IdleLabel /\ IdleScore /\ IdleAgg /\ IdleDom /\ IdleCli

\* "if not events_rows: return"
MainNoEvents ==
    /\ pc = "main" /\ events_rows = <<>>
    /\ pc' = "returned"
    /\ UNCHANGED <<toolVars, labelVars, scoreVars, aggVars, domVars, cliVars>>

\* "if not detections: return"
MainNoDetections ==
    /\ pc = "main" /\ events_rows # <<>> /\ det_rows = <<>>
    /\ pc' = "returned"
    /\ UNCHANGED <<toolVars, labelVars, scoreVars, aggVars, domVars, cliVars>>

\* motion_stats = compute_motion_per_label(detections, max_dt)
MainMotion ==
    /\ pc = "main" /\ events_rows # <<>> /\ det_rows # <<>>
    /\ err' = motion_error(det_rows)
    /\ IF err' = ""
       THEN /\ pc' = "motion"
            /\ motion_stats' = compute_motion_per_label(det_rows, max_dt)
       ELSE pc' = "raised" /\ UNCHANGED motion_stats
    /\ UNCHANGED <<det_rows, max_dt, frame_size, csv_header, events_rows,
                   combined, labelVars, scoreVars, aggVars, domVars, cliVars>>

\* the join, "if not combined: return", and the sort of what is printed
MainCombine ==
    /\ pc = "motion"
    /\ LET joined == build_combined(threat_by_label(events_rows),
                                    motion_stats, 1)
       IN  IF joined = <<>>
           THEN pc' = "returned" /\ UNCHANGED combined
           ELSE /\ pc' = "printed"
                /\ combined' = sorted_combined(joined, 1, <<>>)
    /\ UNCHANGED <<det_rows, max_dt, frame_size, motion_stats, csv_header,
                   events_rows, err, labelVars, scoreVars, aggVars, domVars, cliVars>>

NextCorrelate ==
    MainNoEvents \/ MainNoDetections \/ MainMotion \/ MainCombine

SpecCorrelate == InitCorrelate /\ [][NextCorrelate]_vars

----------------------------------------------------------------------------
(* SpecMalformed: main on an events file and a detections file one of      *)
(* which is malformed                                                       *)

InitMalformed ==
    /\ pc = "main"
    /\ \/ events_rows \in EventLists /\ det_rows \in MalformedDetFiles
       \/ events_rows \in MalformedEventFiles /\ det_rows \in CleanDetFiles
    /\ max_dt = default_max_dt
    /\ frame_size = <<0, 0>> /\ motion_stats = <<>> /\ csv_header = <<>>
    /\ combined = <<>> /\ err = ""
    /\ IdleLabel /\ IdleScore /\ IdleAgg /\ IdleDom /\ IdleCli

SpecMalformed == InitMalformed /\ [][NextCorrelate]_vars

----------------------------------------------------------------------------
(* SpecPipeline: the detections of one session are saved by                *)
(* save_detections_csv and summarised by save_events_summary (cli.run);    *)
(* the saved files are then read by estimate_frame_size, by                 *)
(* compute_motion_per_label or by analyze_threat_motion.main                *)

InitPipeline ==
    /\ pc = "save"
    /\ detections_list \in PipeLists
    /\ idx = 0 /\ stats = NoStats /\ rows = <<>>
    /\ det_rows = <<>> /\ max_dt = default_max_dt
    /\ frame_size = <<0, 0>> /\ motion_stats = <<>> /\ csv_header = <<>>
    /\ events_rows = <<>> /\ combined = <<>> /\ err = ""
    /\ IdleLabel /\ IdleScore /\ IdleDom /\ IdleCli

\* save_detections_csv, and the rows csv.DictReader makes of the file
SaveDetectionsCsv ==
    /\ pc = "save"
    /\ csv_header' = save_detections_csv_header(detections_list)
    /\ det_rows' = csv_rows(detections_list)
    /\ pc' = "call"
    /\ UNCHANGED <<max_dt, frame_size, motion_stats, events_rows, combined,
                   err, labelVars, scoreVars, aggVars, domVars, cliVars>>

\* events_rows = load_csv(args.events_csv)
MainLoadEvents ==
    /\ pc = "done"
    /\ events_rows' = [ k \in 1..Len(rows) |-> events_row(rows[k]) ]
    /\ pc' = "main"
    /\ UNCHANGED <<det_rows, max_dt, frame_size, motion_stats, csv_header,
                   combined, err, labelVars, scoreVars, aggVars, domVars, cliVars>>

\* main's return on an empty detections file is left out: both files come
\* from the same list, so the events file has a row only if the detections
\* file has one, and that return is never taken here
NextPipeline ==
    \/ SaveDetectionsCsv
    \/ SummaryEmpty \/ SummaryFold \/ SummaryWrite
    \/ EstimateFrameSize \/ ComputeMotion
    \/ MainLoadEvents
    \/ MainNoEvents \/ MainMotion \/ MainCombine

SpecPipeline == InitPipeline /\ [][NextPipeline]_vars

----------------------------------------------------------------------------
(* SpecRun: cli.run from the parsed command line.  The constructor of       *)
(* RuntimeConfig ends every run, so the steps after it are in SpecFrameLoop. *)

InitRun ==
    /\ pc = "run"
    /\ args \in RunArgs
    /\ rt_cfg = NoConfig /\ writer = FALSE /\ run_frame_index = 0
    /\ all_detections = <<>> /\ detect_frames = <<>>
    /\ IdleLabel /\ IdleScore /\ IdleAgg /\ IdleDom /\ IdleTools

\* rt_cfg = RuntimeConfig(show_preview=..., ..., show_stats=...)
BuildConfig ==
    /\ pc = "run"
    /\ err' = dataclass_error(run_kwargs(args))
    /\ IF err' = ""
       THEN pc' = "configured" /\ rt_cfg' = RuntimeConfig(run_kwargs(args))
       ELSE pc' = "raised" /\ UNCHANGED rt_cfg
    /\ UNCHANGED <<args, writer, run_frame_index, all_detections,
                   detect_frames, det_rows, max_dt, frame_size, motion_stats,
                   csv_header, events_rows, combined, labelVars, scoreVars,
                   aggVars, domVars>>

NextRun == BuildConfig

SpecRun == InitRun /\ [][NextRun]_vars

----------------------------------------------------------------------------
(* SpecFrameLoop: the frame loop of cli.run and the saving after it, entered *)
(* with a source that opened and with rt_cfg holding the six values run      *)
(* passes to RuntimeConfig                                                   *)

InitFrameLoop ==
    /\ pc = "frames"
    /\ args \in { a \in RunArgs : /\ a.video_out = "output_detection.mp4"
                                  /\ a.json_out = "detections.json"
                                  /\ a.csv_out = "detections.csv" }
    /\ rt_cfg = run_kwargs(args)
    /\ writer \in (IF rt_cfg.save_video THEN BOOLEAN ELSE {FALSE})
    /\ run_frame_index = 0
    /\ all_detections = <<>> /\ detect_frames = <<>>
    /\ IdleLabel /\ IdleScore /\ IdleAgg /\ IdleDom /\ IdleTools

\* "ret, frame = cap.read()" with ret false: the stream ended or the read
\* failed
ReadFailed ==
    /\ pc = "frames"
    /\ pc' = "saving"
    /\ UNCHANGED <<labelVars, scoreVars, aggVars, domVars, toolVars, cliVars>>

\* one iteration with ret true: detect, extend, draw, show, and either the
\* break on ESC or q or "frame_index += 1"
ProcessFrame ==
    /\ pc = "frames"
    /\ run_frame_index < MaxFrames
    /\ \E keep \in BOOLEAN, timestamp \in FrameTimes(run_frame_index),
          key \in Keys :
          LET detections == detect(FrameBox, run_frame_index, timestamp, keep)
          IN  /\ all_detections' = all_detections \o detections
              /\ detect_frames' = Append(detect_frames, run_frame_index)
              /\ IF rt_cfg.show_preview /\ key \in {KeyEsc, KeyQ}
                 THEN pc' = "saving" /\ UNCHANGED run_frame_index
                 ELSE pc' = "frames" /\ run_frame_index' = run_frame_index + 1
    /\ UNCHANGED <<args, rt_cfg, writer, labelVars, scoreVars, aggVars,
                   domVars, toolVars>>

\* after the loop: the writer is released, the three files are written and
\* frame_index is printed as the number of frames
SaveResults ==
    /\ pc = "saving"
    /\ writer' = FALSE
    /\ csv_header' = save_detections_csv_header(all_detections)
    /\ detections_list' = all_detections
    /\ idx' = Len(all_detections)
    /\ stats' = FoldFrom(all_detections, 1, NoStats)
    /\ rows' = summary_rows(stats')
    /\ pc' = "finished"
    /\ UNCHANGED <<args, rt_cfg, run_frame_index, all_detections,
                   detect_frames, det_rows, max_dt, frame_size, motion_stats,
                   events_rows, combined, err, labelVars, scoreVars, domVars>>

NextFrameLoop == ReadFailed \/ ProcessFrame \/ SaveResults

SpecFrameLoop == InitFrameLoop /\ [][NextFrameLoop]_vars

----------------------------------------------------------------------------
(* Claims *)

HighAt == (65 * SCALE) \div 100
MediumAt == (35 * SCALE) \div 100

\* C1: for every label, confidence, box and frame (confidence outside
\* [0,1], inverted boxes and empty frames included) compute_threat_metrics
\* returns a threat_score in [0,1] and a threat_level that is one of low,
\* medium, high, with high iff threat_score >= 0.65, medium iff
\* 0.35 <= threat_score < 0.65 and low iff threat_score < 0.35.
C1_ScoreInRangeLevelByThreshold ==
    pc = "scored" =>
        /\ metrics.threat_score >= 0
        /\ metrics.threat_score <= SCALE
        /\ metrics.threat_level \in {"low", "medium", "high"}
        /\ metrics.threat_level = "high" <=> metrics.threat_score >= HighAt
        /\ metrics.threat_level = "medium" <=>
              (metrics.threat_score >= MediumAt /\ metrics.threat_score < HighAt)
        /\ metrics.threat_level = "low" <=> metrics.threat_score < MediumAt

C1_Witness ==
    /\ pc = "scored"
    /\ inp.score > SCALE
    /\ inp.x2 < inp.x1
    /\ inp.width = 0
    /\ metrics.threat_level = "medium"

\* C2: every Detection emitted by YoloDetector.detect carries the
\* threat_score and threat_level that compute_threat_metrics yields for the
\* same label, confidence, box and frame size.
C2_DetectCarriesDocumentedScore ==
    pc = "detected" =>
        \A k \in 1..Len(emitted) :
            LET m == compute_threat_metrics(inp.label, inp.score, inp.x1, inp.y1,
                                            inp.x2, inp.y2, inp.width, inp.height)
            IN  /\ emitted[k].threat_score = m.threat_score
                /\ emitted[k].threat_level = m.threat_level

\* the label is whitespace, then k in any letter case, then whitespace
IsPaddedCaseVariantOf(l, k) ==
    /\ l # PyNone
    /\ \E i \in 0..Len(l) :
          /\ i + Len(k) <= Len(l)
          /\ \A p \in 1..i : l[p] \in Whitespace
          /\ \A p \in 1..Len(k) : LowerChar(l[i + p]) = k[p]
          /\ \A p \in (i + Len(k) + 1)..Len(l) : l[p] \in Whitespace

\* C3: threat_score = 0.55*clamp(confidence,0,1) + 0.25*clamp(4*area_norm,0,1)
\* + 0.10*proximity + 0.10*safety_bias, up to the rounding of the four
\* products, with safety_bias 0.20 for a danger label, 0.10 for a medium
\* label and 0 otherwise; a car with confidence 0.5, area_norm 0.1 and its
\* box centred in the frame scores 0.485, level medium.
C3_WeightedSum ==
    pc = "scored" =>
        LET bias ==
                IF \E k \in dangerous_keywords : IsPaddedCaseVariantOf(inp.label, k)
                THEN SCALE \div 5
                ELSE IF \E k \in medium_keywords : IsPaddedCaseVariantOf(inp.label, k)
                THEN SCALE \div 10
                ELSE 0
            exact == 55 * Clamp01(inp.score)
                     + 25 * Clamp01(4 * metrics.area_norm)
                     + 10 * metrics.proximity
                     + 10 * bias
        IN  /\ metrics.safety_bias = bias
            /\ 100 * metrics.threat_score <= exact
            /\ exact < 100 * metrics.threat_score + 400
            /\ ( /\ inp.label = Car
                 /\ inp.score = SCALE \div 2
                 /\ metrics.area_norm = SCALE \div 10
                 /\ inp.x1 + inp.x2 = inp.width
                 /\ inp.y1 + inp.y2 = inp.height )
               => /\ metrics.threat_score = (485 * SCALE) \div 1000
                  /\ metrics.threat_level = "medium"

C3_Witness ==
    /\ pc = "scored"
    /\ inp.label = Car
    /\ inp.score = SCALE \div 2
    /\ metrics.area_norm = SCALE \div 10
    /\ inp.x1 + inp.x2 = inp.width
    /\ inp.y1 + inp.y2 = inp.height
    /\ metrics.threat_score = (485 * SCALE) \div 1000

\* C4: the area returned by the scorer is never negative, is 0 for every
\* box with x2 <= x1 or y2 <= y1 (boxes inverted on both axes included) and
\* is (x2-x1)*(y2-y1) otherwise.
C4_AreaZeroForInvertedBox ==
    pc = "scored" =>
        /\ metrics.area >= 0
        /\ (inp.x2 <= inp.x1 \/ inp.y2 <= inp.y1) => metrics.area = 0
        /\ (inp.x2 > inp.x1 /\ inp.y2 > inp.y1) =>
              metrics.area = (inp.x2 - inp.x1) * (inp.y2 - inp.y1)

\* C5: area_norm lies in [0,1] whenever the frame area is > 0 (also for
\* boxes that extend past or are larger than the frame) and is 0 when the
\* frame area is 0.
C5_AreaNormInUnitInterval ==
    pc = "scored" =>
        /\ (inp.width > 0 /\ inp.height > 0) =>
              (metrics.area_norm >= 0 /\ metrics.area_norm <= SCALE)
        /\ (inp.width <= 0 \/ inp.height <= 0) => metrics.area_norm = 0

\* C6: the centre-proximity term is in [0,1]; it is 1 exactly when the box
\* centre is the frame centre, 1 - dist/0.5 (rounded to the grid) for a
\* normalized centre distance dist < 0.5, 0 for dist >= 0.5, and 0 when the
\* frame width or height is 0.
C6_CenterProximity ==
    pc = "scored" =>
        LET p == metrics.proximity
            w == inp.width
            h == inp.height
        IN  /\ p >= 0 /\ p <= SCALE
            /\ (w <= 0 \/ h <= 0) => p = 0
            /\ (w > 0 /\ h > 0) =>
                  LET \* offsets of the box centre from the frame centre,
                      \* as fractions of the frame width and height
                      offx == ((inp.x1 + inp.x2 - w) * SCALE) \div (2 * w)
                      offy == ((inp.y1 + inp.y2 - h) * SCALE) \div (2 * h)
                      dist2 == offx * offx + offy * offy
                      half == SCALE \div 2
                  IN  /\ p = SCALE <=>
                            (inp.x1 + inp.x2 = w /\ inp.y1 + inp.y2 = h)
                      /\ dist2 >= half * half => p = 0
                      /\ dist2 < half * half =>
                            /\ (SCALE - p) % 2 = 0
                            /\ ((SCALE - p) \div 2) * ((SCALE - p) \div 2) <= dist2
                            /\ dist2 < ((SCALE - p) \div 2 + 1)
                                       * ((SCALE - p) \div 2 + 1)

C6_Witness ==
    /\ pc = "scored"
    /\ inp.width > 0 /\ inp.height > 0
    /\ inp.x1 + inp.x2 # inp.width
    /\ inp.y1 + inp.y2 # inp.height
    /\ metrics.proximity > 0
    /\ metrics.proximity < SCALE

\* C7: classify_label_safety returns danger exactly when the trimmed,
\* lower-cased label is one of the 8 danger keywords, medium exactly when it
\* is one of the 9 medium keywords and safe for every other input (empty,
\* None, unknown, or a label that only contains a keyword).
C7_ClassifyByTrimmedLoweredLabel ==
    /\ Cardinality(dangerous_keywords) = 8
    /\ Cardinality(medium_keywords) = 9
    /\ pc = "done" =>
          /\ safety \in {"danger", "medium", "safe"}
          /\ safety = "danger" <=>
                \E k \in dangerous_keywords : IsPaddedCaseVariantOf(label, k)
          /\ safety = "medium" <=>
                \E k \in medium_keywords : IsPaddedCaseVariantOf(label, k)
          /\ (label = PyNone \/ label = <<>>) => safety = "safe"

C7_Witness ==
    /\ pc = "done"
    /\ label = <<"\t", " ", "D", "R", "O", "N", "E", "\n">>
    /\ safety = "danger"

\* the detections of label l among the first n of the list
IndicesOf(l, n) == { k \in 1..n : detections_list[k].label = l }

RECURSIVE SumCounts(_, _)
SumCounts(f, S) ==
    IF S = {} THEN 0
    ELSE LET x == CHOOSE y \in S : TRUE
         IN  f[x].count + SumCounts(f, S \ {x})

\* C8: after N detections are folded the per-label counts sum to N, each
\* detection being counted once under its own label, and the counts of the
\* rows written sum to the length of the list.
C8_CountsSumToN ==
    /\ DOMAIN stats = { detections_list[k].label : k \in 1..idx }
    /\ \A l \in DOMAIN stats : stats[l].count = Cardinality(IndicesOf(l, idx))
    /\ SumCounts(stats, DOMAIN stats) = idx
    /\ (pc = "done" /\ detections_list # <<>>) =>
          SumCounts(rows, DOMAIN rows) = Len(detections_list)

C8_Witness ==
    /\ pc = "done"
    /\ Len(detections_list) = MaxDet
    /\ Len(rows) = 2
    /\ rows[1].count + rows[2].count = MaxDet

\* C9: for every label and arrival order the row's first_frame_index and
\* first_timestamp are the minimum, and last_frame_index and last_timestamp
\* the maximum, over the label's detections, so first <= last for both.
C9_FirstLastAreMinMax ==
    pc = "done" =>
        \A r \in 1..Len(rows) :
            LET K == IndicesOf(rows[r].label, Len(detections_list))
            IN  /\ K # {}
                /\ \E k \in K : detections_list[k].frame_index = rows[r].first_frame_index
                /\ \E k \in K : detections_list[k].frame_index = rows[r].last_frame_index
                /\ \E k \in K : detections_list[k].timestamp = rows[r].first_timestamp
                /\ \E k \in K : detections_list[k].timestamp = rows[r].last_timestamp
                /\ \A k \in K :
                      /\ rows[r].first_frame_index <= detections_list[k].frame_index
                      /\ detections_list[k].frame_index <= rows[r].last_frame_index
                      /\ rows[r].first_timestamp <= detections_list[k].timestamp
                      /\ detections_list[k].timestamp <= rows[r].last_timestamp
                /\ rows[r].first_frame_index <= rows[r].last_frame_index
                /\ rows[r].first_timestamp <= rows[r].last_timestamp

\* a label whose frame indices arrive falling while its timestamps rise
C9_Witness ==
    /\ pc = "done"
    /\ Len(detections_list) >= 2
    /\ detections_list[1].label = detections_list[2].label
    /\ detections_list[1].frame_index > detections_list[2].frame_index
    /\ detections_list[1].timestamp < detections_list[2].timestamp
    /\ rows[1].first_frame_index = detections_list[2].frame_index
    /\ rows[1].first_timestamp = detections_list[1].timestamp

LevelRank(lvl) == CHOOSE i \in 1..Len(LevelOrder) : LevelOrder[i] = lvl

\* C10: the dominant level has the highest tally, and on a tie the first
\* maximal level in the order low, medium, high wins: {low:2, medium:2,
\* high:0} gives low and {low:0, medium:3, high:3} gives medium.
C10_DominantIsFirstMaximal ==
    pc = "done" =>
        /\ dominant_level \in {"low", "medium", "high"}
        /\ \A lvl \in DOMAIN level_counts :
              /\ level_counts[lvl] <= level_counts[dominant_level]
              /\ LevelRank(lvl) < LevelRank(dominant_level) =>
                    level_counts[lvl] < level_counts[dominant_level]
        /\ level_counts = [low |-> 2, medium |-> 2, high |-> 0] =>
              dominant_level = "low"
        /\ level_counts = [low |-> 0, medium |-> 3, high |-> 3] =>
              dominant_level = "medium"

C10_Witness ==
    /\ pc = "done"
    /\ level_counts = [low |-> 2, medium |-> 2, high |-> 0]
    /\ dominant_level = "low"

\* C11: the summary has exactly one row per distinct label among the
\* detections (count >= 1, no row for a label never observed) and the rows
\* are in ascending lexicographic label order whatever the arrival order.
C11_OneRowPerLabelSorted ==
    (pc = "done" /\ detections_list # <<>>) =>
        /\ { rows[r].label : r \in 1..Len(rows) }
              = { detections_list[k].label : k \in 1..Len(detections_list) }
        /\ \A r \in 1..Len(rows) : rows[r].count >= 1
        /\ \A q, r \in 1..Len(rows) :
              q < r =>
                /\ rows[q].label # rows[r].label
                /\ \/ \E i \in 1..Min(Len(rows[q].label), Len(rows[r].label)) :
                         /\ \A j \in 1..(i - 1) : rows[q].label[j] = rows[r].label[j]
                         /\ Ord(rows[q].label[i]) < Ord(rows[r].label[i])
                   \/ /\ Len(rows[q].label) < Len(rows[r].label)
                      /\ \A j \in 1..Len(rows[q].label) :
                            rows[q].label[j] = rows[r].label[j]

\* the label that sorts last arrives first
C11_Witness ==
    /\ pc = "done"
    /\ Len(detections_list) >= 2
    /\ detections_list[1].label = Drone
    /\ detections_list[2].label = Car
    /\ Len(rows) = 2
    /\ rows[1].label = Car
    /\ rows[2].label = Drone


\* the timestamps of the rows labelled l, and the pairs of neighbouring
\* distinct timestamps that are at most max_dt apart
StampsOf(l) ==
    { det_rows[k].timestamp.val :
        k \in { j \in 1..Len(det_rows) : get_label(det_rows[j]) = l } }

ValidGaps(l) ==
    LET T == StampsOf(l)
    IN  { g \in T \X T :
            /\ g[1] < g[2]
            /\ g[2] - g[1] <= max_dt
            /\ ~\E c \in T : g[1] < c /\ c < g[2] }

\* the consecutive pairs of l's rows in sorted order with 0 < dt <= max_dt,
\* and the normalized speed of each
SliceOf(l) == SelectSeq(det_rows, LAMBDA d : d.label = l)

SortedOf(l) == sorted_rows(SliceOf(l), 1, <<>>)

DtIn(srt, i) == srt[i + 1].timestamp.val - srt[i].timestamp.val

ValidPairsIn(srt) ==
    { i \in 1..(Len(srt) - 1) : 0 < DtIn(srt, i) /\ DtIn(srt, i) <= max_dt }

SpeedIn(srt, i, size) ==
    (dist_norm_of(srt[i], srt[i + 1], size[1], size[2]) * SCALE)
        \div DtIn(srt, i)

RECURSIVE SumOver(_, _)
SumOver(f, S) ==
    IF S = {} THEN 0
    ELSE LET x == CHOOSE y \in S : TRUE
         IN  f[x] + SumOver(f, S \ {x})

\* C12: a consecutive pair with dt <= 0 or dt > max_dt changes neither the
\* pair count nor the sum nor the maximum, so the reported pair count is
\* exactly the number of consecutive pairs, in sorted order, with
\* 0 < dt <= max_dt, and mean and maximum are those of these pairs alone.
C12_OnlyValidPairsCount ==
    pc = "estimated" =>
        \A k \in 1..Len(motion_stats) :
            LET e == motion_stats[k]
                srt == SortedOf(e.label)
                size == estimate_frame_size(det_rows)
                V == ValidPairsIn(srt)
                speeds == [ i \in V |-> SpeedIn(srt, i, size) ]
            IN  /\ e.pairs = Cardinality(V)
                /\ e.pairs = Cardinality(ValidGaps(e.label))
                /\ e.mean_speed_norm = SumOver(speeds, V) \div Cardinality(V)
                /\ e.max_speed_norm = SetMax({0} \cup { speeds[i] : i \in V })

C12_Witness ==
    /\ pc = "estimated" /\ Len(det_rows) = 3
    /\ Len(motion_stats) = 1 /\ motion_stats[1].pairs = 1
    /\ motion_stats[1].max_speed_norm > 0
    /\ Cardinality(StampsOf(motion_stats[1].label)) = 3

HasEntry(l) == \E k \in 1..Len(motion_stats) : motion_stats[k].label = l

SameCentre(a, b) ==
    /\ a.x1.val + a.x2.val = b.x1.val + b.x2.val
    /\ a.y1.val + a.y2.val = b.y1.val + b.y2.val

\* C13: a label is in the motion result exactly when it has at least one
\* valid pair; a label whose valid pairs all have zero displacement is
\* present with pairs >= 1 and mean and maximum speed 0, and is not dropped.
C13_PresentIffValidPair ==
    pc = "estimated" =>
        /\ \A l \in LabelsOf(det_rows) : HasEntry(l) <=> ValidGaps(l) # {}
        /\ \A k \in 1..Len(motion_stats) :
              /\ motion_stats[k].label \in LabelsOf(det_rows)
              /\ \A j \in 1..Len(motion_stats) :
                    motion_stats[j].label = motion_stats[k].label => j = k
        /\ \A l \in LabelsOf(det_rows) :
              LET srt == SortedOf(l)
                  V == ValidPairsIn(srt)
              IN
              ( /\ V # {}
                /\ \A i \in V : SameCentre(srt[i], srt[i + 1]) )
              => \E k \in 1..Len(motion_stats) :
                    /\ motion_stats[k].label = l
                    /\ motion_stats[k].pairs >= 1
                    /\ motion_stats[k].mean_speed_norm = 0
                    /\ motion_stats[k].max_speed_norm = 0

C13_Witness ==
    /\ pc = "estimated"
    /\ LabelsOf(det_rows) = { Car, Drone }
    /\ Len(motion_stats) = 1
    /\ motion_stats[1].label = Drone
    /\ motion_stats[1].pairs = 1
    /\ motion_stats[1].max_speed_norm = 0

\* the two rows of end-to-end scenario 1: a 10 x 10 box centred in the
\* 100 x 100 frame at 0.0 s and the same box ten pixels to the right at 0.5 s
IsScenarioRow(r, x1, x2, fi, ts) ==
    /\ r.label = Drone
    /\ r.x1.val = x1 /\ r.x2.val = x2 /\ r.y1.val = 45 /\ r.y2.val = 55
    /\ r.frame_index.val = fi /\ r.timestamp.val = ts

DroneRows == SliceOf(Drone)

C14_DroneScenario ==
    /\ Len(DroneRows) = 2
    /\ IsScenarioRow(DroneRows[1], 45, 55, 0, 0)
    /\ IsScenarioRow(DroneRows[2], 55, 65, 1, SCALE \div 2)

DroneEntry == motion_stats[CHOOSE k \in 1..Len(motion_stats) :
                               motion_stats[k].label = Drone]

\* C14 as stated: the two scenario detections alone give pair count 1 and
\* normalized speed (10/100)/0.5 = 0.2.
C14_SpeedOneFifth ==
    (pc = "estimated" /\ C14_DroneScenario /\ Len(det_rows) = 2) =>
        /\ HasEntry(Drone)
        /\ DroneEntry.pairs = 1
        /\ DroneEntry.mean_speed_norm = SCALE \div 5

\* C14: for the two scenario detections the motion estimator reports pair
\* count 1 and normalized speed (10/width)/0.5, where width is the span
\* max(x2) - min(x1) of all rows; the two detections alone span 20 px, so the
\* speed is (10/20)/0.5 = 1.0, and it is 0.2 only when other rows stretch the
\* span to 100 px.
C14_SpeedByBoxSpan ==
    (pc = "estimated" /\ C14_DroneScenario) =>
        /\ HasEntry(Drone)
        /\ DroneEntry.pairs = 1
        /\ DroneEntry.mean_speed_norm
             = 2 * ((10 * SCALE) \div estimate_frame_size(det_rows)[1])
        /\ DroneEntry.max_speed_norm = DroneEntry.mean_speed_norm
        /\ Len(det_rows) = 2 =>
              /\ estimate_frame_size(det_rows) = <<20, 10>>
              /\ DroneEntry.mean_speed_norm = SCALE
        /\ estimate_frame_size(det_rows)[1] = 100 =>
              DroneEntry.mean_speed_norm = SCALE \div 5

C14_Witness ==
    /\ pc = "estimated" /\ C14_DroneScenario /\ Len(det_rows) = 2
    /\ Len(motion_stats) = 1
    /\ motion_stats[1].pairs = 1
    /\ motion_stats[1].mean_speed_norm = SCALE

Joined == pc = "printed" \/ (pc = "returned" /\ events_rows # <<>> /\ det_rows # <<>>)

InCombined(l) == \E k \in 1..Len(combined) : combined[k].label = l

EventRowOf(l) ==
    events_rows[CHOOSE k \in 1..Len(events_rows) : events_rows[k].label = l]

MotionEntryOf(l) ==
    motion_stats[CHOOSE k \in 1..Len(motion_stats) : motion_stats[k].label = l]

\* C15: the combined output is an inner join: a label is in it exactly when
\* it has both a threat summary row and a motion entry, once, and its
\* moving_threat_index is mean_threat_score * mean_speed_norm.
C15_InnerJoinProduct ==
    Joined =>
        /\ \A l \in LabelsOf(events_rows) \cup LabelsOf(det_rows) :
              InCombined(l) <=> (l \in LabelsOf(events_rows) /\ HasEntry(l))
        /\ \A k \in 1..Len(combined) :
              LET e == combined[k]
              IN  /\ e.label \in LabelsOf(events_rows) /\ HasEntry(e.label)
                  /\ \A j \in 1..Len(combined) : combined[j].label = e.label => j = k
                  /\ e.mean_threat = EventRowOf(e.label).mean_threat_score.val
                  /\ e.mean_speed_norm = MotionEntryOf(e.label).mean_speed_norm
                  /\ e.moving_threat_index * SCALE
                       = EventRowOf(e.label).mean_threat_score.val
                           * MotionEntryOf(e.label).mean_speed_norm

C15_Witness ==
    /\ pc = "printed"
    /\ Len(combined) = 1 /\ combined[1].label = Drone
    /\ combined[1].moving_threat_index = (6 * SCALE) \div 10
    /\ HasEntry(Car) /\ Car \notin LabelsOf(events_rows)

\* C16: the combined entries are printed by moving_threat_index descending,
\* and entries of equal moving_threat_index by label ascending, whatever
\* order the labels first appear in the detections.
C16_SortedIndexThenLabel ==
    pc = "printed" =>
        \A q, r \in 1..Len(combined) :
            q < r =>
                \/ combined[q].moving_threat_index > combined[r].moving_threat_index
                \/ /\ combined[q].moving_threat_index = combined[r].moving_threat_index
                   /\ StrLess(combined[q].label, combined[r].label)

\* C17: when a record read by the motion estimator or the correlator has a
\* missing or unparsable field, the run ends with a failure surfaced to the
\* caller; no default value is substituted and nothing is skipped silently.
C17_MalformedRecordSurfaced ==
    ( /\ pc \in { "printed", "returned", "raised" }
      /\ events_rows # <<>> /\ det_rows # <<>>
      /\ \/ det_rows \in MalformedDetFiles
         \/ events_rows \in MalformedEventFiles )
    => (pc = "raised" /\ err # "")

\* C18: with an empty detection stream every stage gives an empty result and
\* no error: the summary has zero rows, estimate_frame_size returns
\* (1.0, 1.0), the motion estimator returns an empty mapping and the
\* correlator produces no combined entry.
C18_EmptyStreamEmptyResults ==
    detections_list = <<>> =>
        /\ pc # "raised" /\ err = ""
        /\ pc # "printed" /\ combined = <<>>
        /\ rows = <<>> /\ events_rows = <<>> /\ det_rows = <<>>
        /\ motion_stats = <<>>
        /\ pc = "sized" => frame_size = <<1, 1>>
        /\ pc \in { "save", "call", "done", "sized", "estimated", "main",
                    "returned" }

C18_Witness ==
    /\ detections_list = <<>>
    /\ pc = "returned" /\ csv_header # <<>> /\ combined = <<>>

\* C19: save_detections_csv writes a header of exactly the twelve Detection
\* fields for every input, so the header of an empty list is the header of a
\* non-empty one.
C19_HeaderIsTwelveFields ==
    pc # "save" => csv_header = DetectionFields

\* what compute_motion_per_label returns for the rows of label l alone
AloneStats(l) == compute_motion_per_label(SliceOf(l), max_dt)

EntriesOf(ms, l) == SelectSeq(ms, LAMBDA e : e.label = l)

\* C20 as stated: the statistics of a label depend only on that label's own
\* detections, so they are what the label's rows alone would give.
C20_OwnDetectionsOnly ==
    pc = "estimated" =>
        \A l \in LabelsOf(det_rows) :
            EntriesOf(motion_stats, l) = EntriesOf(AloneStats(l), l)

\* C20: the pair count of a label, and whether the label is reported,
\* depend only on that label's own detections; mean_speed_norm and
\* max_speed_norm depend also on the frame size estimated from the boxes of
\* all labels, and are those of the label's rows alone when the other
\* labels' boxes do not change that size.
C20_OwnDetectionsAndFrameSize ==
    pc = "estimated" =>
        \A l \in LabelsOf(det_rows) :
            LET here == EntriesOf(motion_stats, l)
                alone == EntriesOf(AloneStats(l), l)
            IN  /\ Len(here) = Len(alone)
                /\ Len(here) <= 1
                /\ Len(here) = 1 =>
                      /\ here[1].pairs = alone[1].pairs
                      /\ here[1].pairs = Cardinality(ValidGaps(l))
                      /\ estimate_frame_size(det_rows)
                           = estimate_frame_size(SliceOf(l))
                         => here = alone

C20_Witness ==
    /\ pc = "estimated"
    /\ LabelsOf(det_rows) = { Car, Drone }
    /\ HasEntry(Drone)
    /\ EntriesOf(AloneStats(Drone), Drone) # <<>>
    /\ DroneEntry.pairs = EntriesOf(AloneStats(Drone), Drone)[1].pairs
    /\ DroneEntry.mean_speed_norm
         # EntriesOf(AloneStats(Drone), Drone)[1].mean_speed_norm

\* the spans max(x2) - min(x1) and max(y2) - min(y1) over all rows, as the
\* greatest difference between a far edge and a near edge
IsSpan(w, near, far) ==
    /\ \A i, j \in 1..Len(det_rows) : w >= det_rows[i][far].val - det_rows[j][near].val
    /\ \/ w = 1
       \/ \E i, j \in 1..Len(det_rows) : w = det_rows[i][far].val - det_rows[j][near].val

\* C21: the reference width and height are max(x2) - min(x1) and
\* max(y2) - min(y1) over all detections, each floored at 1.0, so both are
\* >= 1 for every detection set, inverted and single-point boxes included,
\* and the motion estimate of such a set ends without a failure.
C21_FrameSizeAtLeastOne ==
    /\ pc = "sized" =>
          /\ frame_size[1] >= 1 /\ frame_size[2] >= 1
          /\ IsSpan(frame_size[1], "x1", "x2")
          /\ IsSpan(frame_size[2], "y1", "y2")
    /\ pc = "estimated" =>
          /\ err = ""
          /\ \A k \in 1..Len(motion_stats) : motion_stats[k].mean_speed_norm >= 0
    /\ pc # "raised"

C21_Witness ==
    /\ pc = "sized" /\ Len(det_rows) = 2
    /\ det_rows[1].x1.val = 51 /\ det_rows[1].x2.val = 49
    /\ det_rows[2].x1.val = 52 /\ det_rows[2].x2.val = 50
    /\ frame_size = <<1, 1>>

\* C22: folding one detection of label L changes only L's aggregate: every
\* field of every other label's aggregate, its level tallies included, is
\* what it was, so no aggregate or tally is shared between labels.
C22_FoldChangesOnlyItsLabel ==
    [][ idx' = idx + 1 =>
          LET L == detections_list[idx + 1].label
          IN  /\ DOMAIN stats' = DOMAIN stats \cup {L}
              /\ \A l \in DOMAIN stats : l # L => stats'[l] = stats[l]
              /\ stats'[L].count = (IF L \in DOMAIN stats THEN stats[L].count ELSE 0) + 1
      ]_vars

C22_Witness ==
    /\ pc = "loop" /\ idx = 2
    /\ detections_list[1].label = Car /\ detections_list[2].label = Drone
    /\ detections_list[2].threat_level = "high"
    /\ stats[Car] = update_aggregate(new_aggregate(detections_list[1]),
                                     detections_list[1])
    /\ stats[Drone].threat_level_counts["high"] = 1

\* the first n detections of label l whose threat_level is lvl
LevelIndices(l, n, lvl) ==
    { k \in IndicesOf(l, n) : detections_list[k].threat_level = lvl }

OtherIndices(l, n) ==
    { k \in IndicesOf(l, n) :
        detections_list[k].threat_level \notin { "low", "medium", "high" } }

\* C23: for every label the low, medium and high tallies count the
\* detections of that level, so they sum to the count when every level is
\* one of the three; a detection of any other level adds to count and to the
\* score sums but to no tally, and a label with only such detections gets
\* dominant level low.
C23_TalliesSumToCount ==
    /\ \A l \in DOMAIN stats :
          LET s == stats[l]
              c == s.threat_level_counts
              K == IndicesOf(l, idx)
          IN  /\ DOMAIN c = { "low", "medium", "high" }
              /\ \A lvl \in DOMAIN c : c[lvl] = Cardinality(LevelIndices(l, idx, lvl))
              /\ s.count = Cardinality(K)
              /\ c["low"] + c["medium"] + c["high"]
                   = s.count - Cardinality(OtherIndices(l, idx))
              /\ OtherIndices(l, idx) = {} =>
                    c["low"] + c["medium"] + c["high"] = s.count
              /\ s.score_sum
                   = SumOver([ k \in K |-> detections_list[k].score ], K)
              /\ s.threat_score_sum
                   = SumOver([ k \in K |-> detections_list[k].threat_score ], K)
    /\ pc = "done" =>
          \A r \in 1..Len(rows) :
              LET n == Len(detections_list)
              IN  OtherIndices(rows[r].label, n) = IndicesOf(rows[r].label, n)
                  => rows[r].dominant_threat_level = "low"

C23_Witness ==
    /\ pc = "done" /\ Len(rows) = 2
    /\ rows[1].count = 2 /\ rows[1].dominant_threat_level = "low"
    /\ OtherIndices(Car, Len(detections_list)) = IndicesOf(Car, Len(detections_list))
    /\ rows[1].mean_score > 0
    /\ stats[Car].threat_level_counts = [ lvl \in { "low", "medium", "high" } |-> 0 ]
    /\ stats[Drone].threat_level_counts["high"] = 1

Reversed(rs) == [ k \in 1..Len(rs) |-> rs[Len(rs) + 1 - k] ]

EntrySet(ms) == { ms[k] : k \in 1..Len(ms) }

\* C24: the motion estimate of a label does not depend on the order of the
\* rows: a permutation of the same rows, here the reversed list, gives the
\* same pairs, mean_speed_norm and max_speed_norm, also when several rows of
\* the label share one timestamp and frame index.
C24_RowOrderIndependent ==
    pc = "estimated" =>
        EntrySet(motion_stats)
          = EntrySet(compute_motion_per_label(Reversed(det_rows), max_dt))

\* ds with the detections at positions i and i + 1 exchanged
SwapAt(ds, i) == [ ds EXCEPT ![i] = ds[i + 1], ![i + 1] = ds[i] ]

\* C25: the per-label summary is the same for every arrival order of the
\* same detections.  The lists are closed under reordering and every
\* reordering is a chain of exchanges of neighbours, so it is stated for one
\* exchange: the aggregates and the rows written are those of the list with
\* any two neighbours exchanged.
C25_ArrivalOrderIndependent ==
    pc = "done" =>
        \A i \in 1..(Len(detections_list) - 1) :
            LET other == FoldFrom(SwapAt(detections_list, i), 1, NoStats)
            IN  /\ other = stats
                /\ summary_rows(other) = rows

C25_Witness ==
    /\ pc = "done" /\ Len(detections_list) = 3 /\ Len(rows) = 1
    /\ detections_list[1].frame_index > detections_list[2].frame_index
    /\ detections_list[1].threat_score > detections_list[3].threat_score
    /\ detections_list[2].score < detections_list[3].score
    /\ rows[1].count = 3
    /\ rows[1].max_threat_score = detections_list[1].threat_score

\* the detections of label l in the list
DetectionsOf(l) ==
    { k \in 1..Len(detections_list) : detections_list[k].label = l }

\* C26: in the finished summary every label has
\* min_score <= mean_score <= max_score and
\* mean_threat_score <= max_threat_score, and min_score, max_score and
\* max_threat_score are each the value of some detection of that label.
C26_MeanBetweenMinAndMax ==
    pc = "done" =>
        \A k \in 1..Len(rows) :
            LET r == rows[k]
                K == DetectionsOf(r.label)
            IN  /\ r.min_score <= r.mean_score
                /\ r.mean_score <= r.max_score
                /\ r.mean_threat_score <= r.max_threat_score
                /\ \E i \in K : detections_list[i].score = r.min_score
                /\ \E i \in K : detections_list[i].score = r.max_score
                /\ \E i \in K :
                       detections_list[i].threat_score = r.max_threat_score

\* C27: every label reported over n detections of that label has
\* 1 <= pairs <= n - 1 and 0 <= mean_speed_norm <= max_speed_norm, and
\* max_speed_norm is the speed of some counted pair.
C27_MeanAtMostMax ==
    pc = "estimated" =>
        \A k \in 1..Len(motion_stats) :
            LET e == motion_stats[k]
                srt == SortedOf(e.label)
                size == estimate_frame_size(det_rows)
            IN  /\ 1 <= e.pairs /\ e.pairs <= Len(srt) - 1
                /\ 0 <= e.mean_speed_norm
                /\ e.mean_speed_norm <= e.max_speed_norm
                /\ \E i \in ValidPairsIn(srt) :
                       e.max_speed_norm
                         \in { SpeedIn(srt, i, size),
                               float_div(dist_norm_of(srt[i], srt[i + 1],
                                                      size[1], size[2])
                                             * SCALE, DtIn(srt, i)) }

\* the label, pairs and mean_speed_norm of each entry, in order
CommonPart(ms) ==
    [ k \in 1..Len(ms) |->
        [ label |-> ms[k].label, pairs |-> ms[k].pairs,
          mean_speed_norm |-> ms[k].mean_speed_norm ] ]

\* C28: on the same rows and max_dt the three copies of the estimator report
\* the same labels, each with the same pairs and the same mean_speed_norm:
\* whichever copy has run, its result agrees on these with what each of the
\* three computes.
C28_CopiesAgree ==
    pc = "estimated" =>
        LET seen == CommonPart(motion_stats)
        IN  /\ seen = CommonPart(compute_motion_per_label(det_rows, max_dt))
            /\ seen = CommonPart(plot_compute_motion_per_label(det_rows, max_dt))
            /\ seen = CommonPart(analyze_motion(det_rows, max_dt))

C28_Witness ==
    /\ pc = "estimated" /\ Len(motion_stats) = 1
    /\ "mean_speed_px" \in DOMAIN motion_stats[1]
    /\ motion_stats[1].pairs = 2
    /\ motion_stats[1].mean_speed_norm > 0
    /\ motion_stats[1].max_speed_px > motion_stats[1].mean_speed_px
    /\ \E k \in 1..Len(det_rows) : det_rows[k].y1.val = 0

\* C29: run passes to RuntimeConfig only keyword arguments the dataclass
\* declares, so the constructor never fails and no run ends before the source
\* is opened.
C29_ConfigAlwaysBuilt ==
    pc # "run" =>
        /\ DOMAIN run_kwargs(args) \subseteq RuntimeConfigFields
        /\ pc = "configured" /\ err = ""

============================================================================
